---------------------------- MODULE Spec2Model ----------------------------
(***************************************************************************)
(* Model of the H9K Raindrop MCP server: the RaindropClient (request       *)
(* construction, the retry/backoff response interceptor, error             *)
(* classification and formatting).                                         *)
(*                                                                         *)
(* JavaScript objects are functions from field names to values; a field    *)
(* that is undefined is a field outside the DOMAIN.  Every field has one   *)
(* type, so truthiness is decided per type (TruthyStr, TruthyNum; an array *)
(* is always truthy).                                                      *)
(***************************************************************************)
EXTENDS Integers, Sequences, FiniteSets, TLC

(***************************************************************************)
(* Program constants                                                       *)
(***************************************************************************)
MAX_RETRIES == 3
RETRY_DELAY_MS == 1000
REQUEST_TIMEOUT_MS == 30000

(***************************************************************************)
(* Bounds of the model                                                     *)
(***************************************************************************)
\* number of logical client calls that may be in flight together
MaxCalls == 2

(***************************************************************************)
(* JavaScript helpers                                                      *)
(***************************************************************************)
\* obj.k !== undefined
Has(obj, k) == k \in DOMAIN obj

\* truthiness of a string / of a number
TruthyStr(s) == s # ""
TruthyNum(n) == n # 0

\* obj.k is a truthy string / number / array (arrays are always truthy)
HasStr(obj, k) == Has(obj, k) /\ TruthyStr(obj[k])
HasNum(obj, k) == Has(obj, k) /\ TruthyNum(obj[k])
HasArr(obj, k) == Has(obj, k)

\* obj.k || 0, for a numeric field
OrZero(obj, k) == IF HasNum(obj, k) THEN obj[k] ELSE 0

\* if (cond) data.k = v
Assign(data, cond, k, v) == IF cond THEN (k :> v) @@ data ELSE data

\* Math.pow(2, n) for the exponents the interceptor uses
RECURSIVE Pow2(_)
Pow2(n) == IF n <= 0 THEN 1 ELSE 2 * Pow2(n - 1)

(***************************************************************************)
(* RaindropClient: the axios instance and the request each method issues   *)
(***************************************************************************)
\* the token the client is constructed with
ApiToken == "tok"

\* axios.create({ baseURL, timeout, headers })
ClientDefaults ==
  [baseURL |-> "https://api.raindrop.io/rest/v1",
   timeout |-> REQUEST_TIMEOUT_MS,
   headers |-> [Authorization |-> "Bearer " \o ApiToken,
                ContentType   |-> "application/json"]]

\* this.client.get / post / put / delete: the request config handed to axios
HttpGet(url)            == [method |-> "get", url |-> url] @@ ClientDefaults
HttpGetQ(url, query)    == [method |-> "get", url |-> url, params |-> query] @@ ClientDefaults
HttpPost(url, data)     == [method |-> "post", url |-> url, data |-> data] @@ ClientDefaults
HttpPut(url, data)      == [method |-> "put", url |-> url, data |-> data] @@ ClientDefaults
HttpDelete(url)         == [method |-> "delete", url |-> url] @@ ClientDefaults
HttpDeleteD(url, data)  == [method |-> "delete", url |-> url, data |-> data] @@ ClientDefaults

\* { $id: c }
Ref(c) == "$id" :> c

getRaindrop(id) == HttpGet("/raindrop/" \o ToString(id))

\* mutant: every defined filter field is forwarded, falsy or not
searchRaindropsQueryDefined(params) ==
  LET q0 == <<>>
      q1 == Assign(q0, Has(params, "search"), "search", params["search"])
      q2 == Assign(q1, Has(params, "sort"), "sort", params["sort"])
      q3 == Assign(q2, Has(params, "perpage"), "perpage", params["perpage"])
      q4 == Assign(q3, Has(params, "page"), "page", params["page"])
      q5 == Assign(q4, Has(params, "tag"), "tag", params["tag"])
  IN  q5

searchRaindropsQuery(params) ==
  LET q0 == <<>>
      q1 == Assign(q0, HasStr(params, "search"), "search", params["search"])
      q2 == Assign(q1, HasStr(params, "sort"), "sort", params["sort"])
      q3 == Assign(q2, HasNum(params, "perpage"), "perpage", params["perpage"])
      q4 == Assign(q3, HasNum(params, "page"), "page", params["page"])
      q5 == Assign(q4, Has(params, "tag") /\ Len(params["tag"]) > 0, "tag", params["tag"])
  IN  q5

\* mutant: a negative scope falls back to 0
searchRaindropsNoNegative(params) ==
  LET collectionId == IF Has(params, "collectionId") /\ params["collectionId"] > 0
                        THEN params["collectionId"] ELSE 0
  IN  HttpGetQ("/raindrops/" \o ToString(collectionId), searchRaindropsQuery(params))

searchRaindrops(params) ==
  LET collectionId == OrZero(params, "collectionId")
  IN  HttpGetQ("/raindrops/" \o ToString(collectionId), searchRaindropsQuery(params))

\* mutant: only a positive collection id is sent
createRaindropDataPositive(params) ==
  LET d0 == Assign([pleaseParse |-> <<>>], Has(params, "link"), "link", params["link"])
      d1 == Assign(d0, HasStr(params, "title"), "title", params["title"])
      d2 == Assign(d1, HasStr(params, "excerpt"), "excerpt", params["excerpt"])
      d3 == Assign(d2, HasStr(params, "note"), "note", params["note"])
      d4 == Assign(d3, HasArr(params, "tags"), "tags", params["tags"])
      d5 == Assign(d4, Has(params, "important"), "important", params["important"])
      collectionId == OrZero(params, "collectionId")
      d6 == Assign(d5, collectionId > 0, "collection", Ref(collectionId))
  IN  d6

createRaindropData(params) ==
  LET d0 == Assign([pleaseParse |-> <<>>], Has(params, "link"), "link", params["link"])
      d1 == Assign(d0, HasStr(params, "title"), "title", params["title"])
      d2 == Assign(d1, HasStr(params, "excerpt"), "excerpt", params["excerpt"])
      d3 == Assign(d2, HasStr(params, "note"), "note", params["note"])
      d4 == Assign(d3, HasArr(params, "tags"), "tags", params["tags"])
      d5 == Assign(d4, Has(params, "important"), "important", params["important"])
      collectionId == OrZero(params, "collectionId")
      d6 == Assign(d5, collectionId # 0, "collection", Ref(collectionId))
  IN  d6

createRaindrop(params) == HttpPost("/raindrop", createRaindropData(params))

\* mutant: the string fields are tested for truthiness, as on create
updateRaindropDataTruthy(params) ==
  LET d0 == <<>>
      d1 == Assign(d0, HasStr(params, "title"), "title", params["title"])
      d2 == Assign(d1, HasStr(params, "excerpt"), "excerpt", params["excerpt"])
      d3 == Assign(d2, HasStr(params, "note"), "note", params["note"])
      d4 == Assign(d3, Has(params, "tags"), "tags", params["tags"])
      d5 == Assign(d4, Has(params, "important"), "important", params["important"])
      d6 == Assign(d5, Has(params, "collectionId"), "collection", Ref(params["collectionId"]))
  IN  d6

\* mutant: collection 0 is left out, as on create
updateRaindropDataSkipZero(params) ==
  LET d0 == <<>>
      d1 == Assign(d0, Has(params, "title"), "title", params["title"])
      d2 == Assign(d1, Has(params, "excerpt"), "excerpt", params["excerpt"])
      d3 == Assign(d2, Has(params, "note"), "note", params["note"])
      d4 == Assign(d3, Has(params, "tags"), "tags", params["tags"])
      d5 == Assign(d4, Has(params, "important"), "important", params["important"])
      d6 == Assign(d5, HasNum(params, "collectionId"), "collection", Ref(params["collectionId"]))
  IN  d6

updateRaindropData(params) ==
  LET d0 == <<>>
      d1 == Assign(d0, Has(params, "title"), "title", params["title"])
      d2 == Assign(d1, Has(params, "excerpt"), "excerpt", params["excerpt"])
      d3 == Assign(d2, Has(params, "note"), "note", params["note"])
      d4 == Assign(d3, Has(params, "tags"), "tags", params["tags"])
      d5 == Assign(d4, Has(params, "important"), "important", params["important"])
      d6 == Assign(d5, Has(params, "collectionId"), "collection", Ref(params["collectionId"]))
  IN  d6

updateRaindrop(id, params) ==
  HttpPut("/raindrop/" \o ToString(id), updateRaindropData(params))

deleteRaindrop(id) == HttpDelete("/raindrop/" \o ToString(id))

getCollections == HttpGet("/collections")

getCollection(id) == HttpGet("/collection/" \o ToString(id))

\* mutant: parent is forwarded whenever it is defined, 0 included
createCollectionDataDefined(params) ==
  LET d0 == Assign(<<>>, Has(params, "title"), "title", params["title"])
      d1 == Assign(d0, HasStr(params, "description"), "description", params["description"])
      d2 == Assign(d1, Has(params, "public"), "public", params["public"])
      d3 == Assign(d2, HasStr(params, "view"), "view", params["view"])
      d4 == Assign(d3, Has(params, "parent"), "parent", Ref(params["parent"]))
  IN  d4

createCollectionData(params) ==
  LET d0 == Assign(<<>>, Has(params, "title"), "title", params["title"])
      d1 == Assign(d0, HasStr(params, "description"), "description", params["description"])
      d2 == Assign(d1, Has(params, "public"), "public", params["public"])
      d3 == Assign(d2, HasStr(params, "view"), "view", params["view"])
      d4 == Assign(d3, HasNum(params, "parent"), "parent", Ref(params["parent"]))
  IN  d4

createCollection(params) == HttpPost("/collection", createCollectionData(params))

updateCollectionData(params) ==
  LET d0 == <<>>
      d1 == Assign(d0, Has(params, "title"), "title", params["title"])
      d2 == Assign(d1, Has(params, "description"), "description", params["description"])
      d3 == Assign(d2, Has(params, "public"), "public", params["public"])
      d4 == Assign(d3, Has(params, "view"), "view", params["view"])
      d5 == Assign(d4, Has(params, "parent"), "parent", Ref(params["parent"]))
  IN  d5

updateCollection(id, params) ==
  HttpPut("/collection/" \o ToString(id), updateCollectionData(params))

deleteCollection(id) == HttpDelete("/collection/" \o ToString(id))

getTags == HttpGet("/tags")

deleteTag(tagName) == HttpDeleteD("/tag", [tags |-> <<tagName>>])

renameTag(oldName, newName) ==
  HttpPut("/tags", [replace |-> << [old |-> oldName, new |-> newName] >>])

getUser == HttpGet("/user")

(***************************************************************************)
(* Errors of an attempt (AxiosError).  error.response is absent when       *)
(* response = FALSE (status is then 0 and unused); error.config is absent  *)
(* when config = FALSE; errorMessage / error are the fields of the         *)
(* response body, "" when the body does not carry them.                    *)
(***************************************************************************)
AxiosErr(hasConfig, status, message, errorMessage, error) ==
  [config |-> hasConfig, response |-> status # 0, status |-> status,
   message |-> message, errorMessage |-> errorMessage, error |-> error]

\* a || b || c on strings
OrStr(a, b, c) == IF TruthyStr(a) THEN a ELSE IF TruthyStr(b) THEN b ELSE c

\* mutant: every status from 400 up is retried
isRetryableErrorFrom400(error) ==
  IF ~error.response
    THEN TRUE
    ELSE error.status >= 400

\* mutant: 500 itself is left out of the server-error range
isRetryableErrorAbove500(error) ==
  IF ~error.response
    THEN TRUE
    ELSE LET status == error.status
         IN  status = 429 \/ (status > 500 /\ status < 600)

isRetryableError(error) ==
  IF ~error.response
    THEN TRUE
    ELSE LET status == error.status
         IN  status = 429 \/ (status >= 500 /\ status < 600)

formatError(error) ==
  IF ~error.response
    THEN "Network error: " \o error.message \o ". The Raindrop.io API may be temporarily unavailable. DO NOT RETRY - this is a connectivity issue."
    ELSE LET status == error.status
         IN  CASE status = 400 ->
                    "Bad request: " \o OrStr(error.errorMessage, error.error, "Invalid parameters provided") \o ". Please check the input values and DO NOT RETRY with the same parameters."
               [] status = 401 ->
                    "Authentication failed: Invalid or expired API token. Please check your RAINDROP_API_TOKEN. DO NOT RETRY - user must fix the token."
               [] status = 403 ->
                    "Access denied: You do not have permission for this operation. DO NOT RETRY."
               [] status = 404 ->
                    "Not found: The requested resource does not exist. It may have been deleted. DO NOT RETRY."
               [] status = 429 ->
                    "Rate limited: Too many requests. The server has already retried. Please inform the user to wait before trying again."
               [] OTHER ->
                    IF status >= 500
                      THEN "Raindrop.io server error (" \o ToString(status) \o "): The service is temporarily unavailable. Already retried " \o ToString(MAX_RETRIES) \o " times."
                      ELSE "API error (" \o ToString(status) \o "): " \o OrStr(error.errorMessage, error.error, error.message) \o ". DO NOT RETRY."

\* mutant: the delay grows linearly instead of doubling
backoffDelayLinear(retryCount) == RETRY_DELAY_MS * (retryCount + 1)

\* mutant: the delay grows with the square of the retry number
backoffDelaySquared(retryCount) == RETRY_DELAY_MS * (retryCount + 1) * (retryCount + 1)

\* const backoffDelay = RETRY_DELAY_MS * Math.pow(2, retryCount)
backoffDelay(retryCount) == RETRY_DELAY_MS * Pow2(retryCount)

\* mutant: the budget test is off by one
shouldRetryInclusive(retryCount, error) ==
  retryCount <= MAX_RETRIES /\ isRetryableError(error)

\* mutant: once a call has been retried, any failure is retried
shouldRetrySticky(retryCount, error) ==
  retryCount < MAX_RETRIES /\ (isRetryableError(error) \/ retryCount > 0)

\* if (retryCount < MAX_RETRIES && isRetryableError(error))
shouldRetry(retryCount, error) ==
  retryCount < MAX_RETRIES /\ isRetryableError(error)

(***************************************************************************)
(* JSON values: a tagged tree.  An object is the sequence of its           *)
(* <<key, value>> properties, in insertion order.                          *)
(***************************************************************************)
JNum(n)  == [t |-> "num", v |-> n]
JStr(s)  == [t |-> "str", v |-> s]
JBool(b) == [t |-> "bool", v |-> b]
JArr(s)  == [t |-> "arr", v |-> s]
JObj(s)  == [t |-> "obj", v |-> s]
JUndef   == [t |-> "undef", v |-> <<>>]
JNull    == [t |-> "null", v |-> <<>>]

\* a value that stands for a thrown TypeError with the given message
JThrow(message) == [t |-> "throw", v |-> message]

\* TypeError: Cannot read properties of null (reading 'key')
TypeErrorMessage(obj, key) ==
  "Cannot read properties of "
    \o (IF obj.t = "null" THEN "null" ELSE "undefined")
    \o " (reading '" \o key \o "')"

\* obj.key: a TypeError when obj is null or undefined, undefined when obj
\* has no such property
RECURSIVE PropFrom(_, _, _)
PropFrom(props, key, i) ==
  IF i > Len(props) THEN JUndef
  ELSE IF props[i][1] = key THEN props[i][2]
  ELSE PropFrom(props, key, i + 1)

Prop(obj, key) ==
  IF obj.t \in {"null", "undef"} THEN JThrow(TypeErrorMessage(obj, key))
  ELSE IF obj.t = "obj" THEN PropFrom(obj.v, key, 1)
  ELSE JUndef

\* mutant: the serialization is not indented
PadNone(n) == ""

RECURSIVE Pad(_)
Pad(n) == IF n <= 0 THEN "" ELSE " " \o Pad(n - 1)

\* mutant: properties with a falsy value are skipped too
DefinedTruthy(props) ==
  SelectSeq(props, LAMBDA kv : /\ kv[2].t \notin {"undef", "null"}
                               /\ kv[2].t = "bool" => kv[2].v
                               /\ kv[2].t = "num" => kv[2].v # 0
                               /\ kv[2].t = "str" => kv[2].v # "")

\* the properties JSON.stringify writes: those whose value is not undefined
Defined(props) == SelectSeq(props, LAMBDA kv : kv[2].t # "undef")

\* JSON.stringify(value, null, 2) of a defined value, at indentation ind
\* (strings of the model hold no character that needs escaping)
RECURSIVE Stringify(_, _), StringifyItems(_, _, _), StringifyProps(_, _, _)
Stringify(j, ind) ==
  CASE j.t = "num"  -> ToString(j.v)
    [] j.t = "str"  -> "\"" \o j.v \o "\""
    [] j.t = "bool" -> IF j.v THEN "true" ELSE "false"
    [] j.t = "arr"  -> IF Len(j.v) = 0 THEN "[]"
                       ELSE "[\n" \o StringifyItems(j.v, 1, ind + 2) \o "\n" \o Pad(ind) \o "]"
    [] j.t = "obj"  -> IF Len(Defined(j.v)) = 0 THEN "{}"
                       ELSE "{\n" \o StringifyProps(Defined(j.v), 1, ind + 2) \o "\n" \o Pad(ind) \o "}"
    [] OTHER        -> "null"

StringifyItems(s, i, ind) ==
  Pad(ind) \o Stringify(s[i], ind)
    \o (IF i = Len(s) THEN "" ELSE ",\n" \o StringifyItems(s, i + 1, ind))

StringifyProps(s, i, ind) ==
  Pad(ind) \o "\"" \o s[i][1] \o "\": " \o Stringify(s[i][2], ind)
    \o (IF i = Len(s) THEN "" ELSE ",\n" \o StringifyProps(s, i + 1, ind))

(***************************************************************************)
(* What each client method returns from the response body                  *)
(***************************************************************************)
\* the client method's name -> its return value, given response.data, or
\* the TypeError the method rejects with when the body is null or undefined
ResultOf(op, data) ==
  CASE op \in {"getRaindrop", "createRaindrop", "updateRaindrop",
               "getCollection", "createCollection", "updateCollection"} ->
         Prop(data, "item")
    [] op \in {"getCollections", "getTags"} -> Prop(data, "items")
    [] op = "searchRaindrops" ->
         IF Prop(data, "items").t = "throw"
           THEN Prop(data, "items")
           ELSE JObj(<< <<"items", Prop(data, "items")>>,
                        <<"count", Prop(data, "count")>> >>)
    [] op = "getUser" -> Prop(data, "user")
    [] OTHER -> JUndef

(***************************************************************************)
(* Dispatcher: the tool catalogue                                          *)
(***************************************************************************)
Tool(name, properties, required) ==
  [name |-> name, properties |-> properties, required |-> required]

tools ==
  << Tool("search_bookmarks",
          {"search", "collectionId", "tag", "sort", "page", "perpage"}, <<>>),
     Tool("get_bookmark", {"id"}, <<"id">>),
     Tool("create_bookmark",
          {"link", "title", "excerpt", "note", "tags", "collectionId", "important"},
          <<"link">>),
     Tool("update_bookmark",
          {"id", "title", "excerpt", "note", "tags", "collectionId", "important"},
          <<"id">>),
     Tool("delete_bookmark", {"id"}, <<"id">>),
     Tool("list_collections", {}, <<>>),
     Tool("get_collection", {"id"}, <<"id">>),
     Tool("create_collection",
          {"title", "description", "public", "view", "parent"}, <<"title">>),
     Tool("update_collection",
          {"id", "title", "description", "public", "view", "parent"}, <<"id">>),
     Tool("delete_collection", {"id"}, <<"id">>),
     Tool("list_tags", {}, <<>>),
     Tool("rename_tag", {"oldName", "newName"}, <<"oldName", "newName">>),
     Tool("delete_tag", {"tagName"}, <<"tagName">>),
     Tool("get_user_info", {}, <<>>) >>

\* tools.map(t => t.name)
\* mutant: the catalogue advertises the last tool under another name
ToolNamesRenamed ==
  [i \in DOMAIN tools |->
     IF tools[i].name = "get_user_info" THEN "get_user" ELSE tools[i].name]

ToolNames == [i \in DOMAIN tools |-> tools[i].name]

\* names.join(sep)
RECURSIVE JoinFrom(_, _, _)
JoinFrom(names, sep, i) ==
  IF i > Len(names) THEN ""
  ELSE names[i] \o (IF i = Len(names) THEN "" ELSE sep \o JoinFrom(names, sep, i + 1))

Join(names, sep) == JoinFrom(names, sep, 1)

(***************************************************************************)
(* Dispatcher: the responses of the call handler                           *)
(***************************************************************************)
\* { content: [{ type: 'text', text }] }
TextResponse(text) == [content |-> << [type |-> "text", text |-> text] >>]

\* { content: [{ type: 'text', text }], isError: true }
ErrorResponse(text) ==
  [content |-> << [type |-> "text", text |-> text] >>, isError |-> TRUE]

ShuttingDownResponse ==
  ErrorResponse("Error: Server is shutting down. Please wait and try again. DO NOT RETRY immediately.")

UnknownToolResponse(name) ==
  ErrorResponse("Unknown tool: " \o name \o ". Available tools: "
                  \o Join(ToolNames, ", ") \o ". DO NOT RETRY with the same tool name.")

\* mutant: the catch block answers with a fixed text
CaughtResponseGeneric(message) == ErrorResponse("Error: the operation failed")

\* catch (error) { ... text: `Error: ${error.message}` ... isError: true }
CaughtResponse(message) == ErrorResponse("Error: " \o message)

\* the message the list handler throws while shutting down
ListShuttingDownMessage == "Server is shutting down. Please wait and try again."

\* const { id, ...updateParams } = args
Rest(args, k) == [j \in DOMAIN args \ {k} |-> args[j]]

\* the labels of the switch's cases
CaseLabels ==
  {"search_bookmarks", "get_bookmark", "create_bookmark", "update_bookmark",
   "delete_bookmark", "list_collections", "get_collection", "create_collection",
   "update_collection", "delete_collection", "list_tags", "rename_tag",
   "delete_tag", "get_user_info"}

\* the switch: the client method a tool name invokes and the request that
\* method issues; op = "none" in the default case
NoClientCall == [op |-> "none", request |-> <<>>]

\* mutant: two cases of the switch call the method of the other entity
ClientCallCrossed(name, args) ==
  CASE name = "search_bookmarks" ->
         [op |-> "searchRaindrops", request |-> searchRaindrops(args)]
    [] name = "get_bookmark" ->
         [op |-> "getRaindrop", request |-> getRaindrop(args["id"])]
    [] name = "create_bookmark" ->
         [op |-> "createRaindrop", request |-> createRaindrop(args)]
    [] name = "update_bookmark" ->
         [op |-> "updateRaindrop", request |-> updateRaindrop(args["id"], Rest(args, "id"))]
    [] name = "delete_bookmark" ->
         [op |-> "deleteRaindrop", request |-> deleteRaindrop(args["id"])]
    [] name = "list_collections" ->
         [op |-> "getCollections", request |-> getCollections]
    [] name = "get_collection" ->
         [op |-> "getCollection", request |-> getCollection(args["id"])]
    [] name = "create_collection" ->
         [op |-> "createCollection", request |-> createCollection(args)]
    [] name = "update_collection" ->
         [op |-> "updateRaindrop", request |-> updateRaindrop(args["id"], Rest(args, "id"))]
    [] name = "delete_collection" ->
         [op |-> "deleteRaindrop", request |-> deleteRaindrop(args["id"])]
    [] name = "list_tags" ->
         [op |-> "getTags", request |-> getTags]
    [] name = "rename_tag" ->
         [op |-> "renameTag", request |-> renameTag(args["oldName"], args["newName"])]
    [] name = "delete_tag" ->
         [op |-> "deleteTag", request |-> deleteTag(args["tagName"])]
    [] name = "get_user_info" ->
         [op |-> "getUser", request |-> getUser]
    [] OTHER -> NoClientCall

ClientCall(name, args) ==
  CASE name = "search_bookmarks" ->
         [op |-> "searchRaindrops", request |-> searchRaindrops(args)]
    [] name = "get_bookmark" ->
         [op |-> "getRaindrop", request |-> getRaindrop(args["id"])]
    [] name = "create_bookmark" ->
         [op |-> "createRaindrop", request |-> createRaindrop(args)]
    [] name = "update_bookmark" ->
         [op |-> "updateRaindrop", request |-> updateRaindrop(args["id"], Rest(args, "id"))]
    [] name = "delete_bookmark" ->
         [op |-> "deleteRaindrop", request |-> deleteRaindrop(args["id"])]
    [] name = "list_collections" ->
         [op |-> "getCollections", request |-> getCollections]
    [] name = "get_collection" ->
         [op |-> "getCollection", request |-> getCollection(args["id"])]
    [] name = "create_collection" ->
         [op |-> "createCollection", request |-> createCollection(args)]
    [] name = "update_collection" ->
         [op |-> "updateCollection", request |-> updateCollection(args["id"], Rest(args, "id"))]
    [] name = "delete_collection" ->
         [op |-> "deleteCollection", request |-> deleteCollection(args["id"])]
    [] name = "list_tags" ->
         [op |-> "getTags", request |-> getTags]
    [] name = "rename_tag" ->
         [op |-> "renameTag", request |-> renameTag(args["oldName"], args["newName"])]
    [] name = "delete_tag" ->
         [op |-> "deleteTag", request |-> deleteTag(args["tagName"])]
    [] name = "get_user_info" ->
         [op |-> "getUser", request |-> getUser]
    [] OTHER -> NoClientCall

\* the response of a case of the switch once its client method has returned,
\* or the catch block's when the method threw on the response body
SuccessResponse(name, args, data) ==
  CASE name = "delete_bookmark" ->
         TextResponse("Bookmark " \o ToString(args["id"]) \o " deleted successfully")
    [] name = "delete_collection" ->
         TextResponse("Collection " \o ToString(args["id"]) \o " deleted successfully")
    [] name = "rename_tag" ->
         TextResponse("Tag renamed from \"" \o args["oldName"] \o "\" to \""
                        \o args["newName"] \o "\" successfully")
    [] name = "delete_tag" ->
         TextResponse("Tag \"" \o args["tagName"] \o "\" deleted successfully")
    [] OTHER ->
         LET result == ResultOf(ClientCall(name, args).op, data)
         IN  IF result.t = "throw"
               THEN CaughtResponse(result.v)
               ELSE IF result.t = "undef"
                      THEN [content |-> << [type |-> "text"] >>]
                      ELSE TextResponse(Stringify(result, 0))

(***************************************************************************)
(* Sample response bodies and tool calls                                   *)
(***************************************************************************)
\* bodies of the remote API's successful responses
SampleBookmark ==
  JObj(<< <<"_id", JNum(42)>>, <<"title", JStr("TLA")>>,
          <<"link", JStr("https://a.example")>>, <<"tags", JArr(<<JStr("t")>>)>>,
          <<"collection", JObj(<< <<"$id", JNum(5)>> >>)>>,
          <<"important", JBool(FALSE)>> >>)

SampleCollection ==
  JObj(<< <<"_id", JNum(5)>>, <<"title", JStr("Papers")>>,
          <<"public", JBool(FALSE)>>, <<"count", JNum(0)>> >>)

SampleTag == JObj(<< <<"_id", JStr("t")>>, <<"count", JNum(1)>> >>)

SampleUser == JObj(<< <<"_id", JNum(1)>>, <<"fullName", JStr("A")>> >>)

SampleData(op) ==
  CASE op \in {"getRaindrop", "createRaindrop", "updateRaindrop"} ->
         JObj(<< <<"result", JBool(TRUE)>>, <<"item", SampleBookmark>> >>)
    [] op \in {"getCollection", "createCollection", "updateCollection"} ->
         JObj(<< <<"result", JBool(TRUE)>>, <<"item", SampleCollection>> >>)
    [] op = "searchRaindrops" ->
         JObj(<< <<"result", JBool(TRUE)>>, <<"items", JArr(<<SampleBookmark>>)>>,
                 <<"count", JNum(1)>> >>)
    [] op = "getCollections" ->
         JObj(<< <<"result", JBool(TRUE)>>, <<"items", JArr(<<SampleCollection>>)>> >>)
    [] op = "getTags" ->
         JObj(<< <<"result", JBool(TRUE)>>, <<"items", JArr(<<SampleTag>>)>> >>)
    [] op = "getUser" ->
         JObj(<< <<"result", JBool(TRUE)>>, <<"user", SampleUser>> >>)
    [] OTHER -> JObj(<< <<"result", JBool(TRUE)>> >>)

\* arguments of a call of each tool
SampleArgs(name) ==
  CASE name = "search_bookmarks"  -> [search |-> "tla", page |-> 2]
    [] name = "get_bookmark"      -> [id |-> 42]
    [] name = "create_bookmark"   -> [link |-> "https://a.example", collectionId |-> 5]
    [] name = "update_bookmark"   -> [id |-> 42, title |-> "TLA"]
    [] name = "delete_bookmark"   -> [id |-> 42]
    [] name = "get_collection"    -> [id |-> 5]
    [] name = "create_collection" -> [title |-> "Papers"]
    [] name = "update_collection" -> [id |-> 5, title |-> "Papers"]
    [] name = "delete_collection" -> [id |-> 5]
    [] name = "rename_tag"        -> [oldName |-> "old", newName |-> "new"]
    [] name = "delete_tag"        -> [tagName |-> "old"]
    [] OTHER                      -> <<>>

\* bodies of the successful responses to a listing that finds nothing
EmptyData(op) ==
  IF op = "searchRaindrops"
    THEN JObj(<< <<"result", JBool(TRUE)>>, <<"items", JArr(<<>>)>>,
                 <<"count", JNum(0)>> >>)
    ELSE JObj(<< <<"result", JBool(TRUE)>>, <<"items", JArr(<<>>)>> >>)

\* a bookmark of the unsorted collection, most of its fields empty
BareBookmark ==
  JObj(<< <<"_id", JNum(7)>>, <<"title", JStr("")>>,
          <<"link", JStr("https://b.example")>>, <<"note", JNull>>,
          <<"tags", JArr(<<>>)>>,
          <<"collection", JObj(<< <<"$id", JNum(-1)>> >>)>>,
          <<"highlights", JObj(<<>>)>>, <<"important", JBool(TRUE)>> >>)

\* the calls whose request was answered: every tool with its arguments and
\* the body the remote API answered with (a sample, an empty listing, null,
\* no body)
ToolCalls ==
  { [name |-> ToolNames[i], args |-> SampleArgs(ToolNames[i]), body |-> "sample",
     data |-> SampleData(ClientCall(ToolNames[i], SampleArgs(ToolNames[i])).op)]
      : i \in DOMAIN ToolNames }
  \cup
  { [name |-> n, args |-> SampleArgs(n), body |-> "empty",
     data |-> EmptyData(ClientCall(n, SampleArgs(n)).op)]
      : n \in {"search_bookmarks", "list_collections", "list_tags"} }
  \cup
  { [name |-> "get_bookmark", args |-> [id |-> 7], body |-> "bare",
     data |-> JObj(<< <<"result", JBool(TRUE)>>, <<"item", BareBookmark>> >>)] }
  \cup
  { [name |-> ToolNames[i], args |-> SampleArgs(ToolNames[i]), body |-> "null",
     data |-> JNull] : i \in DOMAIN ToolNames }
  \cup
  { [name |-> ToolNames[i], args |-> SampleArgs(ToolNames[i]), body |-> "undefined",
     data |-> JUndef] : i \in DOMAIN ToolNames }

(***************************************************************************)
(* State                                                                   *)
(***************************************************************************)
VARIABLES
  calls,    \* calls[c]: one logical client call (one call of a client method)
  opName,   \* the client method under test (request-construction runs)
  opArgs,   \* its arguments
  opResult, \* what it produced: the request config handed to axios, or its value
  opDone,   \* whether it has run
  isShuttingDown, \* the dispatcher's shutdown flag
  exitTimers,     \* ms left on each pending shutdown timer, oldest first
  sinceSignal,    \* ms elapsed since the first termination signal
  proc,     \* the process: alive, or exited with a code
  out       \* what the last list request or process-level handler produced

vars == <<calls, opName, opArgs, opResult, opDone,
          isShuttingDown, exitTimers, sinceSignal, proc, out>>
opVars == <<opName, opArgs, opResult, opDone>>
srvVars == <<isShuttingDown, exitTimers, sinceSignal, proc, out>>

CallIds == 1..MaxCalls

\* time advances in steps of the base delay
TickMs == RETRY_DELAY_MS

\* no error recorded
NoErr == AxiosErr(TRUE, 0, "", "", "")

(***************************************************************************)
(* The outcomes of an attempt that fails.                                  *)
(***************************************************************************)
StatusMessage(status) == "Request failed with status code " \o ToString(status)

RetryableErrs ==
  { AxiosErr(TRUE, 0, "timeout of 30000ms exceeded", "", ""),
    AxiosErr(TRUE, 429, StatusMessage(429), "", ""),
    AxiosErr(TRUE, 503, StatusMessage(503), "", "") }

TerminalErrs ==
  { AxiosErr(TRUE, 400, StatusMessage(400), "link is required", ""),
    AxiosErr(TRUE, 401, StatusMessage(401), "", ""),
    AxiosErr(TRUE, 403, StatusMessage(403), "", ""),
    AxiosErr(TRUE, 404, StatusMessage(404), "", ""),
    AxiosErr(TRUE, 418, StatusMessage(418), "", "teapot") }

\* an error that carries no request config (it did not come from an attempt)
NoConfigErrs == { AxiosErr(FALSE, 0, "Invalid URL", "", "") }

\* a response whose status lies above the 5xx class
OutOfRangeErrs == { AxiosErr(TRUE, 600, StatusMessage(600), "", "") }

Errs == RetryableErrs \cup TerminalErrs \cup NoConfigErrs \cup OutOfRangeErrs

\* the requests the calls issue: the c-th call issues the c-th of these
SampleRequests ==
  << createRaindrop([link |-> "https://a.example", collectionId |-> 5]),
     deleteTag("old"),
     searchRaindrops([search |-> "tla", page |-> 2]) >>

RequestOf(c) == SampleRequests[((c - 1) % Len(SampleRequests)) + 1]

\* the client method the c-th call runs: the one that issued its request
OperationOf(c) ==
  <<"createRaindrop", "deleteTag", "searchRaindrops">>[((c - 1) % Len(SampleRequests)) + 1]

\* mutant: one retry counter is kept for the whole client
retryCountOfShared(config) ==
  LET counts == {OrZero(calls[c].config, "__retryCount") : c \in CallIds}
  IN  CHOOSE n \in counts : \A m \in counts : m <= n

\* (config as any).__retryCount || 0
retryCountOf(config) == OrZero(config, "__retryCount")

\* what an attempt puts on the wire: the config without the retry counter
Wire(config) == [k \in DOMAIN config \ {"__retryCount"} |-> config[k]]

\* no response sent yet
NoResponse == [content |-> <<>>]

IdleCall ==
  [pc |-> "idle", config |-> <<>>, first |-> <<>>, sent |-> <<>>,
   attempts |-> 0, open |-> 0, delays |-> <<>>, waits |-> <<>>, timer |-> 0,
   waited |-> 0, lastErr |-> NoErr, outcome |-> "none", message |-> "",
   tool |-> "", args |-> <<>>, response |-> NoResponse, replies |-> 0,
   afterShutdown |-> FALSE, repliedInGrace |-> FALSE]

\* the process is running; nothing has been signalled, listed or logged
Running == [alive |-> TRUE, exitCode |-> 0, cause |-> "none"]
NoOutput == [kind |-> "none"]

InitServer ==
  /\ isShuttingDown = FALSE
  /\ exitTimers = <<>>
  /\ sinceSignal = 0
  /\ proc = Running
  /\ out = NoOutput

Init ==
  /\ InitServer
  /\ calls = [c \in CallIds |-> IdleCall]
  /\ opName = "none"
  /\ opArgs = <<>>
  /\ opResult = <<>>
  /\ opDone = FALSE

(***************************************************************************)
(* A client method issues its request: the first attempt.                  *)
(***************************************************************************)
Issue(call, req) ==
  [call EXCEPT !.pc = "inflight", !.config = req, !.first = Wire(req),
               !.sent = Wire(req), !.attempts = 1, !.open = @ + 1]

Request(c) ==
  /\ calls[c].pc = "idle"
  /\ calls' = [calls EXCEPT ![c] = Issue(@, RequestOf(c))]
  /\ UNCHANGED <<opVars, srvVars>>

(***************************************************************************)
(* Response interceptor, success side: response => response, and the       *)
(* method's return statement, which reads its result off response.data.    *)
(***************************************************************************)
\* the bodies of a 2xx response: the sample of the operation, null, or none
ResponseBodies(op) == {SampleData(op), JNull, JUndef}

\* the method op returns what it reads off the body, or rejects with the
\* TypeError of reading a property of null or undefined: an error that no
\* failed attempt stands behind
Answer(call, op, data) ==
  LET result == ResultOf(op, data)
  IN  IF result.t = "throw"
        THEN [call EXCEPT !.pc = "done", !.outcome = "error", !.open = @ - 1,
                          !.message = result.v]
        ELSE [call EXCEPT !.pc = "done", !.outcome = "ok", !.open = @ - 1]

Respond(c) ==
  /\ calls[c].pc = "inflight"
  /\ \E data \in ResponseBodies(OperationOf(c)) :
       calls' = [calls EXCEPT ![c] = Answer(@, OperationOf(c), data)]
  /\ UNCHANGED <<opVars, srvVars>>

(***************************************************************************)
(* Response interceptor, error side.                                       *)
(***************************************************************************)
\* throw new Error(formatError(error))
Throw(call, error) ==
  [call EXCEPT !.pc = "done", !.outcome = "error", !.open = @ - 1,
               !.message = formatError(error), !.lastErr = error]

\* config.__retryCount = retryCount + 1; await delay(backoffDelay)
ScheduleRetry(call, error) ==
  LET retryCount == retryCountOf(call.config)
  IN  [call EXCEPT !.pc = "backoff",
                   !.open = @ - 1,
                   !.config = ("__retryCount" :> (retryCount + 1)) @@ call.config,
                   !.delays = Append(@, backoffDelay(retryCount)),
                   !.timer = backoffDelay(retryCount),
                   !.waited = 0,
                   !.lastErr = error]

Intercept(call, error) ==
  IF ~error.config
    THEN Throw(call, error)
    ELSE IF shouldRetry(retryCountOf(call.config), error)
           THEN ScheduleRetry(call, error)
           ELSE Throw(call, error)

Reject(c, error) ==
  /\ calls[c].pc = "inflight"
  /\ calls' = [calls EXCEPT ![c] = Intercept(@, error)]
  /\ UNCHANGED <<opVars, srvVars>>

(***************************************************************************)
(* delay(ms): time passes for every pending timer; a timer that is due     *)
(* fires before time advances further.                                     *)
(***************************************************************************)
TimerPending(call) == call.pc = "backoff" /\ call.timer > 0

\* mutant: the retry does not wait for its delay
TimerDueAtOnce(call) == call.pc = "backoff"

TimerDue(call) == call.pc = "backoff" /\ call.timer = 0

Elapse(call) ==
  IF TimerPending(call)
    THEN [call EXCEPT !.timer = IF @ > TickMs THEN @ - TickMs ELSE 0,
                      !.waited = @ + TickMs]
    ELSE call

Tick ==
  /\ \E c \in CallIds : TimerPending(calls[c])
  /\ \A c \in CallIds : ~TimerDue(calls[c])
  /\ calls' = [c \in CallIds |-> Elapse(calls[c])]
  /\ UNCHANGED <<opVars, srvVars>>

\* mutant: the retry is rebuilt from the method and url only
ReissueBare(call) ==
  [call EXCEPT !.pc = "inflight", !.attempts = @ + 1, !.open = @ + 1,
               !.sent = [method |-> call.config.method, url |-> call.config.url],
               !.waits = Append(@, call.waited), !.lastErr = NoErr]

\* return this.client.request(config), once the delay has resolved
Reissue(call) ==
  [call EXCEPT !.pc = "inflight", !.attempts = @ + 1, !.open = @ + 1,
               !.sent = Wire(call.config),
               !.waits = Append(@, call.waited), !.lastErr = NoErr]

Retry(c) ==
  /\ TimerDue(calls[c])
  /\ calls' = [calls EXCEPT ![c] = Reissue(@)]
  /\ UNCHANGED <<opVars, srvVars>>

Next ==
  \/ \E c \in CallIds : Request(c)
  \/ \E c \in CallIds : Respond(c)
  \/ \E c \in CallIds, error \in Errs : Reject(c, error)
  \/ Tick
  \/ \E c \in CallIds : Retry(c)

Spec == Init /\ [][Next]_vars

(***************************************************************************)
(* Request construction and classification on their own: one method is     *)
(* applied to arguments drawn from the spaces below.                       *)
(***************************************************************************)
StrVals  == {"", "x"}
ListVals == {<<>>, <<"t">>}
BoolVals == {FALSE, TRUE}
CollVals == {-1, 0, 5}
PageVals == {0, 2}
IdVals   == {0, 42}

\* S, and every member of S extended with field k set to a value of V
Extend(S, k, V) == S \cup { (k :> v) @@ f : f \in S, v \in V }

UpdateRaindropParams ==
  Extend(Extend(Extend(Extend(Extend(Extend({<<>>},
    "title", StrVals), "excerpt", StrVals), "note", StrVals),
    "tags", ListVals), "important", BoolVals), "collectionId", CollVals)

CreateRaindropParams ==
  { [link |-> "https://a.example"] @@ p : p \in UpdateRaindropParams }

SearchParams ==
  Extend(Extend(Extend(Extend(Extend(Extend({<<>>},
    "collectionId", CollVals), "search", StrVals), "sort", {"", "title"}),
    "perpage", PageVals), "page", PageVals), "tag", ListVals)

UpdateCollectionParams ==
  Extend(Extend(Extend(Extend(Extend({<<>>},
    "title", StrVals), "description", StrVals), "public", BoolVals),
    "view", {"", "grid"}), "parent", CollVals)

CreateCollectionParams ==
  { [title |-> "T"] @@ p : p \in
      Extend(Extend(Extend(Extend({<<>>},
        "description", StrVals), "public", BoolVals),
        "view", {"", "grid"}), "parent", CollVals) }

\* names a call request may carry: the advertised ones, the switch's labels
\* and names of neither kind
DispatchNames ==
  {ToolNames[i] : i \in DOMAIN ToolNames} \cup CaseLabels
    \cup {"get_user", "list_bookmarks", ""}

\* statuses of a failed attempt; 0 stands for "no response"
MinStatus == 300
MaxStatus == 610
StatusVals == {0} \cup (MinStatus..MaxStatus)

\* number of attempt outcomes scripted for one call
MaxOutcomes == 4

\* how an attempt can end, and after how long: answered at once or just
\* before the timeout, timed out, or failed with a status
AttemptVals ==
  { [ok |-> TRUE, ms |-> 0, error |-> NoErr],
    [ok |-> TRUE, ms |-> REQUEST_TIMEOUT_MS, error |-> NoErr],
    [ok |-> FALSE, ms |-> REQUEST_TIMEOUT_MS,
     error |-> AxiosErr(TRUE, 0, "timeout of 30000ms exceeded", "", "")],
    [ok |-> FALSE, ms |-> REQUEST_TIMEOUT_MS,
     error |-> AxiosErr(TRUE, 503, StatusMessage(503), "", "")],
    [ok |-> FALSE, ms |-> 0, error |-> AxiosErr(TRUE, 429, StatusMessage(429), "", "")],
    [ok |-> FALSE, ms |-> 0, error |-> AxiosErr(TRUE, 404, StatusMessage(404), "", "")],
    [ok |-> FALSE, ms |-> 0, error |-> AxiosErr(TRUE, 401, StatusMessage(401), "", "")] }

\* the failures formatError is given: no response, or a response with any
\* status and a body that carries errorMessage, error, both or neither
FailureVals ==
  { AxiosErr(TRUE, 0, "timeout of 30000ms exceeded", "", ""),
    AxiosErr(FALSE, 0, "Invalid URL", "", "") }
  \cup
  { AxiosErr(TRUE, st, StatusMessage(st), em, er) :
      st \in StatusVals, em \in {"", "link is required"}, er \in {"", "teapot"} }

InitOps ==
  /\ InitServer
  /\ calls = [c \in CallIds |-> IdleCall]
  /\ opDone = FALSE
  /\ opResult = <<>>
  /\ \/ /\ opName = "searchRaindrops"
        /\ \E p \in SearchParams : opArgs = [params |-> p]
     \/ /\ opName = "createRaindrop"
        /\ \E p \in CreateRaindropParams : opArgs = [params |-> p]
     \/ /\ opName = "updateRaindrop"
        /\ \E i \in IdVals, p \in UpdateRaindropParams : opArgs = [id |-> i, params |-> p]
     \/ /\ opName = "createCollection"
        /\ \E p \in CreateCollectionParams : opArgs = [params |-> p]
     \/ /\ opName = "updateCollection"
        /\ \E i \in IdVals, p \in UpdateCollectionParams : opArgs = [id |-> i, params |-> p]
     \/ /\ opName = "isRetryableError"
        /\ \E st \in StatusVals : opArgs = [error |-> AxiosErr(TRUE, st, StatusMessage(st), "", "")]
     \/ /\ opName = "formatError"
        /\ \E error \in FailureVals : opArgs = [error |-> error]
     \/ /\ opName = "request"
        /\ \E outcomes \in [1..MaxOutcomes -> AttemptVals] : opArgs = [outcomes |-> outcomes]
     \/ /\ opName = "callTool"
        /\ \E call \in ToolCalls : opArgs = call
     \/ /\ opName = "dispatch"
        /\ \E name \in DispatchNames :
             opArgs = [name |-> name, args |-> SampleArgs(name)]

Run(name, result) ==
  /\ opName = name
  /\ ~opDone
  /\ opResult' = result
  /\ opDone' = TRUE
  /\ UNCHANGED <<calls, opName, opArgs, srvVars>>

RunSearchRaindrops  == Run("searchRaindrops", searchRaindrops(opArgs.params))
RunCreateRaindrop   == Run("createRaindrop", createRaindrop(opArgs.params))
RunUpdateRaindrop   == Run("updateRaindrop", updateRaindrop(opArgs.id, opArgs.params))
RunCreateCollection == Run("createCollection", createCollection(opArgs.params))
RunUpdateCollection == Run("updateCollection", updateCollection(opArgs.id, opArgs.params))
RunIsRetryableError == Run("isRetryableError", isRetryableError(opArgs.error))
RunFormatError == Run("formatError", formatError(opArgs.error))

\* one call made against scripted attempt outcomes, step by step: the
\* request leaves, each attempt ends as the script says and passes through
\* the interceptor, the backoff timer runs and the retry is sent; between
\* these steps another call is made and answered.  The scripted call is
\* call 1, the other one call 2
ScriptedRequest == opName = "request" /\ Request(1)

ScriptedRespond ==
  /\ opName = "request"
  /\ calls[1].pc = "inflight"
  /\ opArgs.outcomes[calls[1].attempts].ok
  /\ Respond(1)

ScriptedReject ==
  /\ opName = "request"
  /\ calls[1].pc = "inflight"
  /\ ~opArgs.outcomes[calls[1].attempts].ok
  /\ Reject(1, opArgs.outcomes[calls[1].attempts].error)

ScriptedTick == opName = "request" /\ Tick

ScriptedRetry == opName = "request" /\ Retry(1)

ScriptedOther ==
  /\ opName = "request"
  /\ \/ Request(2)
     \/ Respond(2)

RunCallTool ==
  Run("callTool", SuccessResponse(opArgs.name, opArgs.args, opArgs.data))

\* the switch up to the await: the client method called with its arguments
RunDispatch == Run("dispatch", ClientCall(opArgs.name, opArgs.args))

NextOps ==
  \/ RunSearchRaindrops
  \/ RunCreateRaindrop
  \/ RunUpdateRaindrop
  \/ RunCreateCollection
  \/ RunUpdateCollection
  \/ RunIsRetryableError
  \/ RunFormatError
  \/ ScriptedRequest
  \/ ScriptedRespond
  \/ ScriptedReject
  \/ ScriptedTick
  \/ ScriptedRetry
  \/ ScriptedOther
  \/ RunCallTool
  \/ RunDispatch

SpecOps == InitOps /\ [][NextOps]_vars

(***************************************************************************)
(* Properties of the retry policy (checked under Spec)                     *)
(***************************************************************************)
\* the backoff schedule of the policy, retry by retry
ExpectedDelays == <<1000, 2000, 4000>>

\* an attempt failure of a retryable kind: no response, 429 or any 5xx
RetryableKind(error) ==
  error.config /\ (~error.response \/ error.status = 429 \/ error.status \in 500..599)

\* an attempt failure with one of the terminal statuses of the taxonomy
TerminalKind(error) ==
  error.config /\ error.response /\ error.status \in {400, 401, 403, 404}

\* the property of the response body a method reads first; "" for a method
\* that reads none
MethodProperty(op) ==
  CASE op = "createRaindrop" -> "item"
    [] op = "searchRaindrops" -> "items"
    [] OTHER -> ""

\* the messages of the TypeError thrown on reading the property key of a
\* body that is null or undefined
TypeErrorTexts(key) ==
  { "Cannot read properties of null (reading '" \o key \o "')",
    "Cannot read properties of undefined (reading '" \o key \o "')" }

\* the last attempt of the call was answered: the call ended and no failure
\* of an attempt is behind its end
Answered(call) == call.pc = "done" /\ call.lastErr = NoErr

\* C1: a call whose first N attempts fail retryably (N in 0..3) and whose
\* next attempt succeeds returns the success after exactly N retries, retry k
\* having been started only after a backoff of 1000 * 2^k ms; with N <= 3 a
\* retryable failure never ends the call.  The answer is returned as the
\* success unless it has no body for the method to read its result from,
\* when the method throws the TypeError of that read, after the same
\* retries.
C1_SuccessAfterRetries ==
  \A c \in CallIds :
    LET call == calls[c]
        N == call.attempts - 1
    IN  /\ call.outcome = "ok" => Answered(call)
        /\ Answered(call) =>
             /\ call.outcome \in {"ok", "error"}
             /\ call.outcome = "error" =>
                  /\ MethodProperty(OperationOf(c)) # ""
                  /\ call.message \in TypeErrorTexts(MethodProperty(OperationOf(c)))
             /\ call.outcome = "ok" => call.message = ""
             /\ N \in 0..3
             /\ retryCountOf(call.config) = N
             /\ Len(call.delays) = N
             /\ Len(call.waits) = N
             /\ \A k \in 1..N : /\ call.delays[k] = ExpectedDelays[k]
                                /\ call.waits[k] >= ExpectedDelays[k]
        /\ call.pc = "backoff" =>
             /\ RetryableKind(call.lastErr)
             /\ Len(call.delays) = N + 1
             /\ call.delays[N + 1] = ExpectedDelays[N + 1]
             /\ call.timer + call.waited >= ExpectedDelays[N + 1]
        /\ (call.outcome = "error" /\ ~Answered(call) /\ RetryableKind(call.lastErr)) =>
             N >= 3

\* a call that succeeded on its fourth attempt, after three backoffs
C1_Witness ==
  \E c \in CallIds :
    /\ calls[c].outcome = "ok"
    /\ calls[c].attempts = 4
    /\ calls[c].waits = <<1000, 2000, 4000>>

\* C2: a call whose attempts all fail retryably ends with a classified error
\* after exactly 3 retries (4 attempts); no call ever issues a fifth attempt.
C2_ExhaustedAfterThreeRetries ==
  \A c \in CallIds :
    LET call == calls[c]
    IN  /\ call.attempts <= 4
        /\ retryCountOf(call.config) <= 3
        /\ (call.pc = "done" /\ call.outcome = "error" /\ ~Answered(call)
              /\ RetryableKind(call.lastErr)) =>
             /\ call.attempts = 4
             /\ retryCountOf(call.config) = 3
             /\ Len(call.waits) = 3
             /\ call.message = formatError(call.lastErr)
             /\ call.message # ""

\* a call that failed with 503 on its fourth attempt
C2_Witness ==
  \E c \in CallIds :
    /\ calls[c].outcome = "error"
    /\ calls[c].lastErr.status = 503
    /\ calls[c].attempts = 4

\* C3: an attempt that fails with 400, 401, 403 or 404 ends the call at once
\* with the classified error: no backoff is scheduled and no further attempt
\* is issued, whatever budget remains.
C3_TerminalNotRetried ==
  \A c \in CallIds :
    LET call == calls[c]
    IN  TerminalKind(call.lastErr) =>
          /\ call.pc = "done"
          /\ call.outcome = "error"
          /\ call.message = formatError(call.lastErr)
          /\ Len(call.delays) = call.attempts - 1
          /\ Len(call.waits) = call.attempts - 1
          /\ retryCountOf(call.config) = call.attempts - 1

\* a first attempt that failed with 404, the whole budget remaining
C3_Witness ==
  \E c \in CallIds :
    /\ calls[c].lastErr.status = 404
    /\ calls[c].pc = "done"
    /\ calls[c].attempts = 1
    /\ retryCountOf(calls[c].config) = 0

\* C5: every retry re-issues the original request: what attempt k+1 puts on
\* the wire (method, url, query, body, headers) equals what attempt 1 did,
\* and the config differs from the original by the retry counter only.
C5_RetryReusesRequest ==
  \A c \in CallIds :
    LET call == calls[c]
    IN  call.pc # "idle" =>
          /\ call.first = Wire(RequestOf(c))
          /\ call.sent = call.first
          /\ Wire(call.config) = call.first
          /\ DOMAIN call.config \ DOMAIN call.first \subseteq {"__retryCount"}

\* a fourth attempt of a request that carries a body
C5_Witness ==
  \E c \in CallIds :
    /\ calls[c].attempts = 4
    /\ calls[c].pc = "inflight"
    /\ "data" \in DOMAIN calls[c].sent
    /\ calls[c].sent = calls[c].first

(***************************************************************************)
(* Properties of classification and request construction (under SpecOps)   *)
(***************************************************************************)
Ran(name) == opDone /\ opName = name

\* C4: a failed attempt is classified retryable iff it has no response or
\* its status is 429 or lies in 500..599; any other status is terminal.
C4_RetryableIff ==
  Ran("isRetryableError") =>
    LET e == opArgs.error
    IN  opResult = (~e.response \/ e.status = 429 \/ (500 <= e.status /\ e.status <= 599))

\* status 500, the lower edge of the server-error range, classified retryable
C4_Witness ==
  /\ Ran("isRetryableError")
  /\ opArgs.error.status = 500
  /\ opResult = TRUE

\* the payload is the reference { $id: c } under field k
IsRef(data, k, c) ==
  /\ k \in DOMAIN data
  /\ DOMAIN data[k] = {"$id"}
  /\ data[k]["$id"] = c

\* the payload field an input field is sent as
PayloadField(k) == IF k = "collectionId" THEN "collection" ELSE k

\* the payload holds exactly the supplied fields, with the supplied values;
\* the field ref is sent as a nested reference
ExactPayload(p, d, ref) ==
  /\ DOMAIN d = { PayloadField(k) : k \in DOMAIN p }
  /\ \A k \in DOMAIN p \ {ref} : d[k] = p[k]
  /\ ref \in DOMAIN p => IsRef(d, PayloadField(ref), p[ref])

\* C6: updateRaindrop and updateCollection send exactly the supplied fields:
\* an absent field is absent from the payload, and a field supplied with a
\* falsy value (0, false, "", empty list) is present in it.
C6_PartialUpdateExact ==
  /\ Ran("updateRaindrop") =>
       ExactPayload(opArgs.params, opResult.data, "collectionId")
  /\ Ran("updateCollection") =>
       ExactPayload(opArgs.params, opResult.data, "parent")

\* updateRaindrop given only falsy values: all of them are in the payload
C6_Witness ==
  /\ Ran("updateRaindrop")
  /\ DOMAIN opArgs.params = {"title", "tags", "important", "collectionId"}
  /\ opArgs.params["title"] = ""
  /\ opArgs.params["tags"] = <<>>
  /\ opArgs.params["important"] = FALSE
  /\ opArgs.params["collectionId"] = 0
  /\ DOMAIN opResult.data = {"title", "tags", "important", "collection"}
  /\ opResult.data["title"] = ""
  /\ opResult.data["important"] = FALSE

\* C7: createRaindrop sends no collection when collectionId is 0 or not
\* supplied, and collection = { $id: c } for every other integer c.
C7_CreateOmitsCollectionZero ==
  Ran("createRaindrop") =>
    LET p == opArgs.params
        d == opResult.data
    IN  IF "collectionId" \in DOMAIN p /\ p["collectionId"] # 0
          THEN IsRef(d, "collection", p["collectionId"])
          ELSE "collection" \notin DOMAIN d

\* createRaindrop with collectionId -1 sends collection = { $id: -1 }
C7_Witness ==
  /\ Ran("createRaindrop")
  /\ "collectionId" \in DOMAIN opArgs.params
  /\ opArgs.params["collectionId"] = -1
  /\ IsRef(opResult.data, "collection", -1)

\* C8: updateRaindrop forwards collection = { $id: c } whenever collectionId
\* is supplied, 0 included, whereas createRaindrop given 0 sends none.
C8_UpdateForwardsCollectionZero ==
  /\ (Ran("updateRaindrop") /\ "collectionId" \in DOMAIN opArgs.params) =>
       IsRef(opResult.data, "collection", opArgs.params["collectionId"])
  /\ (Ran("createRaindrop") /\ "collectionId" \in DOMAIN opArgs.params
        /\ opArgs.params["collectionId"] = 0) =>
       "collection" \notin DOMAIN opResult.data

\* updateRaindrop with collectionId 0 sends collection = { $id: 0 }
C8_Witness ==
  /\ Ran("updateRaindrop")
  /\ "collectionId" \in DOMAIN opArgs.params
  /\ opArgs.params["collectionId"] = 0
  /\ IsRef(opResult.data, "collection", 0)

\* C9: searchRaindrops requests raindrops/0 when no scope is supplied,
\* raindrops/-1 for scope -1, and raindrops/c for every other scope c.
C9_SearchPath ==
  Ran("searchRaindrops") =>
    LET p == opArgs.params
    IN  /\ opResult.method = "get"
        /\ opResult.url =
             IF "collectionId" \notin DOMAIN p THEN "/raindrops/0"
             ELSE IF p["collectionId"] = -1 THEN "/raindrops/-1"
             ELSE "/raindrops/" \o ToString(p["collectionId"])

\* a search scoped to -1 goes to raindrops/-1
C9_Witness ==
  /\ Ran("searchRaindrops")
  /\ "collectionId" \in DOMAIN opArgs.params
  /\ opArgs.params["collectionId"] = -1
  /\ opResult.url = "/raindrops/-1"

FilterFields == {"search", "sort", "perpage", "page", "tag"}

\* a string or a list that is not empty; a number is never empty
NonEmptyValue(k, v) ==
  CASE k \in {"search", "sort"} -> v # ""
    [] k = "tag" -> v # <<>>
    [] OTHER -> TRUE

\* a value JavaScript treats as true: a non-empty string, a non-zero number;
\* for the tag list, a non-empty list
ForwardedValue(k, v) ==
  CASE k \in {"search", "sort"} -> v # ""
    [] k = "tag" -> v # <<>>
    [] OTHER -> v # 0

\* params without field k
Omit(params, k) == [j \in DOMAIN params \ {k} |-> params[j]]

\* C10 as stated: a filter field is forwarded exactly when it is defined and
\* non-empty, so an omitted field and a supplied value never give the same
\* query.
C10_Original ==
  Ran("searchRaindrops") =>
    LET p == opArgs.params
        q == opResult.params
    IN  \A k \in FilterFields :
          /\ k \in DOMAIN q <=> (k \in DOMAIN p /\ NonEmptyValue(k, p[k]))
          /\ (k \in DOMAIN p /\ NonEmptyValue(k, p[k])) =>
               q # searchRaindropsQuery(Omit(p, k))

\* C10 (amended): a filter field is forwarded, with its value, exactly when
\* it is supplied with a truthy value (non-empty string, non-zero number,
\* non-empty list); a field supplied as "", 0 or the empty list gives the
\* same query as the field omitted.
C10_ForwardsTruthy ==
  Ran("searchRaindrops") =>
    LET p == opArgs.params
        q == opResult.params
    IN  /\ DOMAIN q \subseteq FilterFields
        /\ \A k \in FilterFields :
             /\ k \in DOMAIN q <=> (k \in DOMAIN p /\ ForwardedValue(k, p[k]))
             /\ k \in DOMAIN q => q[k] = p[k]
             /\ (k \in DOMAIN p /\ ~ForwardedValue(k, p[k])) =>
                  q = searchRaindropsQuery(Omit(p, k))

\* page 0 supplied with a search text: the text is forwarded, the page is not
C10_Witness ==
  /\ Ran("searchRaindrops")
  /\ DOMAIN opArgs.params = {"search", "page"}
  /\ opArgs.params["page"] = 0
  /\ opArgs.params["search"] = "x"
  /\ DOMAIN opResult.params = {"search"}
  /\ opResult.params["search"] = "x"

(***************************************************************************)
(* The server: dispatcher handlers, shutdown and process-level handlers    *)
(***************************************************************************)
\* setTimeout(..., 5000) in shutdown
SHUTDOWN_GRACE_MS == 5000

\* number of tool calls the transport delivers
MaxRequests == 1
\* number of termination signals the process receives
MaxSignals == 1

RequestIds == 1..MaxRequests

\* the tool calls the transport delivers: the c-th request is the c-th of
\* these (the requests they issue are SampleRequests), or names no tool
SampleCalls ==
  << [name |-> "create_bookmark",
      args |-> [link |-> "https://a.example", collectionId |-> 5]],
     [name |-> "delete_tag", args |-> [tagName |-> "old"]],
     [name |-> "search_bookmarks", args |-> [search |-> "tla", page |-> 2]] >>

CallOf(c) == SampleCalls[((c - 1) % Len(SampleCalls)) + 1]

UnknownNames == {"bogus_tool"}

\* the failures of an attempt the server runs meet: connectivity, a terminal
\* status, a server error
ServerErrs ==
  { AxiosErr(TRUE, 0, "timeout of 30000ms exceeded", "", ""),
    AxiosErr(TRUE, 404, StatusMessage(404), "", "") }

\* mutant: the event loop stops serving once shutdown has begun
AliveUntilSignal == proc.alive /\ ~isShuttingDown

\* the process has not exited: its event loop runs handlers and timers
Alive == proc.alive

\* process.exit(code)
Exited(code, cause) == [alive |-> FALSE, exitCode |-> code, cause |-> cause]

(***************************************************************************)
(* CallToolRequestSchema handler                                           *)
(***************************************************************************)
\* return { content, isError }: the handler's one response
Reply(call, response, shutting) ==
  [call EXCEPT !.pc = "done", !.response = response, !.replies = @ + 1,
               !.repliedInGrace = shutting]

\* mutant: the shutdown guard is tested after the switch has dispatched
HandleCallNoGuard(call, name, args, shutting) ==
  LET arrived == [call EXCEPT !.tool = name, !.args = args, !.afterShutdown = shutting]
      target  == ClientCall(name, args)
  IN  IF target.op = "none"
        THEN Reply(arrived, UnknownToolResponse(name), shutting)
        ELSE Issue(arrived, target.request)

\* mutant: the default case throws instead of returning
HandleCallDefaultThrows(call, name, args, shutting) ==
  LET arrived == [call EXCEPT !.tool = name, !.args = args, !.afterShutdown = shutting]
      target  == ClientCall(name, args)
  IN  IF shutting
        THEN Reply(arrived, ShuttingDownResponse, shutting)
        ELSE IF target.op = "none"
               THEN Reply(arrived, CaughtResponse("Unknown tool: " \o name), shutting)
               ELSE Issue(arrived, target.request)

\* mutant: the tool name is looked up before the shutdown flag is tested
HandleCallLookupFirst(call, name, args, shutting) ==
  LET arrived == [call EXCEPT !.tool = name, !.args = args, !.afterShutdown = shutting]
      target  == ClientCall(name, args)
  IN  IF target.op = "none"
        THEN Reply(arrived, UnknownToolResponse(name), shutting)
        ELSE IF shutting
               THEN Reply(arrived, ShuttingDownResponse, shutting)
               ELSE Issue(arrived, target.request)

\* from the request's arrival to the first await (or to the return)
HandleCall(call, name, args, shutting) ==
  LET arrived == [call EXCEPT !.tool = name, !.args = args, !.afterShutdown = shutting]
      target  == ClientCall(name, args)
  IN  IF shutting
        THEN Reply(arrived, ShuttingDownResponse, shutting)
        ELSE IF target.op = "none"
               THEN Reply(arrived, UnknownToolResponse(name), shutting)
               ELSE Issue(arrived, target.request)

CallTool(c, name) ==
  /\ Alive
  /\ calls[c].pc = "idle"
  /\ calls' = [calls EXCEPT ![c] =
                 HandleCall(@, name, CallOf(c).args, isShuttingDown)]
  /\ UNCHANGED <<opVars, srvVars>>

\* the awaited client method returns: the case's return statement
Succeed(call, data, shutting) ==
  LET after == Answer(call, ClientCall(call.tool, call.args).op, data)
  IN  IF after.outcome = "error"
        THEN Reply(after, CaughtResponse(after.message), shutting)
        ELSE Reply(after, SuccessResponse(call.tool, call.args, data), shutting)

ToolResponds(c) ==
  /\ Alive
  /\ calls[c].pc = "inflight"
  /\ \E data \in ResponseBodies(ClientCall(calls[c].tool, calls[c].args).op) :
       calls' = [calls EXCEPT ![c] = Succeed(@, data, isShuttingDown)]
  /\ UNCHANGED <<opVars, srvVars>>

\* mutant: the catch block does not flag the response as an error
FailUnflagged(call, error, shutting) ==
  LET after == Intercept(call, error)
  IN  IF after.pc = "done"
        THEN Reply(after, TextResponse("Error: " \o after.message), shutting)
        ELSE after

\* the attempt fails: the interceptor retries, or throws into the catch block
Fail(call, error, shutting) ==
  LET after == Intercept(call, error)
  IN  IF after.pc = "done"
        THEN Reply(after, CaughtResponse(after.message), shutting)
        ELSE after

ToolRejects(c, error) ==
  /\ Alive
  /\ calls[c].pc = "inflight"
  /\ calls' = [calls EXCEPT ![c] = Fail(@, error, isShuttingDown)]
  /\ UNCHANGED <<opVars, srvVars>>

ToolRetry(c) ==
  /\ Alive
  /\ Retry(c)

(***************************************************************************)
(* ListToolsRequestSchema handler                                          *)
(***************************************************************************)
\* mutant: the list handler answers with the catalogue in every state
ListResultAlways(shutting) ==
  [kind |-> "list", shutting |-> shutting, threw |-> FALSE, message |-> "",
   tools |-> tools]

\* mutant: the catalogue returned leaves out its last descriptor
ListResultShort(shutting) ==
  IF shutting
    THEN [kind |-> "list", shutting |-> shutting, threw |-> TRUE,
          message |-> ListShuttingDownMessage, tools |-> <<>>]
    ELSE [kind |-> "list", shutting |-> shutting, threw |-> FALSE,
          message |-> "", tools |-> SubSeq(tools, 1, Len(tools) - 1)]

ListResult(shutting) ==
  IF shutting
    THEN [kind |-> "list", shutting |-> shutting, threw |-> TRUE,
          message |-> ListShuttingDownMessage, tools |-> <<>>]
    ELSE [kind |-> "list", shutting |-> shutting, threw |-> FALSE,
          message |-> "", tools |-> tools]

ListTools ==
  /\ Alive
  /\ out' = ListResult(isShuttingDown)
  /\ UNCHANGED <<calls, opVars, isShuttingDown, exitTimers, sinceSignal, proc>>

(***************************************************************************)
(* shutdown(signal) and its timer                                          *)
(***************************************************************************)
\* mutant: the signal sets the flag but schedules no exit
shutdownTimersNone(timers) == timers

\* mutant: a further signal starts the grace window afresh
shutdownTimersRestarted(timers) ==
  [i \in 1..(Len(timers) + 1) |-> SHUTDOWN_GRACE_MS]

\* setTimeout(() => process.exit(0), 5000)
shutdownTimers(timers) == Append(timers, SHUTDOWN_GRACE_MS)

\* shutdown(signal), for a process that receives at most limit signals
Shutdown(signal, limit) ==
  /\ Alive
  /\ Len(exitTimers) < limit
  /\ isShuttingDown' = TRUE
  /\ exitTimers' = shutdownTimers(exitTimers)
  /\ UNCHANGED <<calls, opVars, sinceSignal, proc, out>>

Signal(signal) == Shutdown(signal, MaxSignals)

ExitTimerDue == \E i \in DOMAIN exitTimers : exitTimers[i] = 0

\* an event the process handled outside the tool calls, as it was observed
Event(source, code) == [kind |-> "event", source |-> source, code |-> code]

ShutdownTimeout ==
  /\ Alive
  /\ ExitTimerDue
  /\ proc' = Exited(0, "shutdown")
  /\ out' = Event("shutdown", "")
  /\ UNCHANGED <<calls, opVars, isShuttingDown, exitTimers, sinceSignal>>

\* time passes for the backoff timers and the shutdown timers together
ServerTick ==
  /\ Alive
  /\ \/ \E c \in CallIds : TimerPending(calls[c])
     \/ \E i \in DOMAIN exitTimers : exitTimers[i] > 0
  /\ \A c \in CallIds : ~TimerDue(calls[c])
  /\ ~ExitTimerDue
  /\ calls' = [c \in CallIds |-> Elapse(calls[c])]
  /\ exitTimers' = [i \in DOMAIN exitTimers |->
                      IF exitTimers[i] > TickMs THEN exitTimers[i] - TickMs ELSE 0]
  /\ sinceSignal' = IF isShuttingDown THEN sinceSignal + TickMs ELSE sinceSignal
  /\ UNCHANGED <<opVars, isShuttingDown, proc, out>>

(***************************************************************************)
(* Process-level handlers                                                  *)
(***************************************************************************)
ErrorCodes == {"EPIPE", "EIO"}

\* mutant: a broken pipe on stdout is logged like any other error
stdoutErrorLogsAll(code) == proc

\* process.stdout.on('error'): EPIPE exits 0, anything else is logged
stdoutError(code) ==
  IF code = "EPIPE" THEN Exited(0, "stdout EPIPE") ELSE proc

\* process.stderr.on('error'): EPIPE exits 0, anything else exits 1
stderrError(code) ==
  IF code = "EPIPE" THEN Exited(0, "stderr EPIPE") ELSE Exited(1, "stderr " \o code)

\* mutant: an uncaught exception that is no broken pipe crashes the process
uncaughtExceptionCrashes(code) ==
  IF code = "EPIPE" THEN Exited(0, "uncaught EPIPE") ELSE Exited(1, "uncaught " \o code)

\* process.on('uncaughtException'): EPIPE exits 0, anything else is logged
uncaughtException(code) ==
  IF code = "EPIPE" THEN Exited(0, "uncaught EPIPE") ELSE proc

\* process.on('unhandledRejection'): logged, the process keeps running
unhandledRejection == proc

\* console.error: the process keeps running, what it wrote is not kept
Logged == [kind |-> "log"]

\* what is kept of the event: a broken pipe and an exit with their source,
\* anything else as a log line
Observed(source, code, after) ==
  IF code = "EPIPE" \/ ~after.alive THEN Event(source, code) ELSE Logged

ProcessEvent(source, code, after) ==
  /\ Alive
  /\ proc' = after
  /\ out' = Observed(source, code, after)
  /\ UNCHANGED <<calls, opVars, isShuttingDown, exitTimers, sinceSignal>>

StdoutError(code) == ProcessEvent("stdout", code, stdoutError(code))

StderrError(code) == ProcessEvent("stderr", code, stderrError(code))

UncaughtException(code) ==
  ProcessEvent("uncaughtException", code, uncaughtException(code))

\* mutant: the rejection handler puts the dispatcher back to Running
UnhandledRejectionResumes ==
  /\ Alive
  /\ proc' = unhandledRejection
  /\ out' = Observed("unhandledRejection", "", unhandledRejection)
  /\ isShuttingDown' = FALSE
  /\ UNCHANGED <<calls, opVars, exitTimers, sinceSignal>>

UnhandledRejection == ProcessEvent("unhandledRejection", "", unhandledRejection)

NextServer ==
  \/ \E c \in RequestIds :
       \E name \in {CallOf(c).name} \cup UnknownNames : CallTool(c, name)
  \/ \E c \in RequestIds : ToolResponds(c)
  \/ \E c \in RequestIds, error \in ServerErrs : ToolRejects(c, error)
  \/ \E c \in RequestIds : ToolRetry(c)
  \/ ListTools
  \/ \E signal \in {"SIGINT", "SIGTERM"} : Signal(signal)
  \/ ShutdownTimeout
  \/ ServerTick
  \/ \E code \in ErrorCodes : StdoutError(code)
  \/ \E code \in ErrorCodes : StderrError(code)
  \/ \E code \in ErrorCodes : UncaughtException(code)
  \/ UnhandledRejection

SpecServer == Init /\ [][NextServer]_vars

\* the server under repeated termination signals
MaxRepeatedSignals == 2

RepeatedSignal(signal) == Shutdown(signal, MaxRepeatedSignals)

NextRepeatedSignals ==
  \/ \E c \in RequestIds :
       \E name \in {CallOf(c).name} \cup UnknownNames : CallTool(c, name)
  \/ \E c \in RequestIds : ToolResponds(c)
  \/ \E c \in RequestIds, error \in ServerErrs : ToolRejects(c, error)
  \/ \E c \in RequestIds : ToolRetry(c)
  \/ ListTools
  \/ \E signal \in {"SIGINT", "SIGTERM"} : RepeatedSignal(signal)
  \/ ShutdownTimeout
  \/ ServerTick
  \/ \E code \in ErrorCodes : StdoutError(code)
  \/ \E code \in ErrorCodes : StderrError(code)
  \/ \E code \in ErrorCodes : UncaughtException(code)
  \/ UnhandledRejection

SpecRepeatedSignals == Init /\ [][NextRepeatedSignals]_vars

\* the event loop runs every timer that is due: the backoff delays, the
\* shutdown timeout, and the clock they are measured by
SpecServerFair ==
  /\ SpecServer
  /\ WF_vars(ServerTick)
  /\ WF_vars(ShutdownTimeout)
  /\ \A c \in RequestIds : WF_vars(ToolRetry(c))

(***************************************************************************)
(* Properties of the dispatcher                                            *)
(***************************************************************************)
\* the 14 registered tool names
ValidToolNames ==
  << "search_bookmarks", "get_bookmark", "create_bookmark", "update_bookmark",
     "delete_bookmark", "list_collections", "get_collection", "create_collection",
     "update_collection", "delete_collection", "list_tags", "rename_tag",
     "delete_tag", "get_user_info" >>

Elems(seq) == {seq[i] : i \in DOMAIN seq}

\* the tools whose client method returns part of the response body, and the
\* property of the body each of them reads first
ValueTools ==
  {"search_bookmarks", "get_bookmark", "create_bookmark", "update_bookmark",
   "list_collections", "get_collection", "create_collection",
   "update_collection", "list_tags", "get_user_info"}

BodyProperty(name) ==
  CASE name \in {"search_bookmarks", "list_collections", "list_tags"} -> "items"
    [] name = "get_user_info" -> "user"
    [] OTHER -> "item"

\* the message of the TypeError a client method throws on a body that is
\* null ("null") or undefined ("undefined")
UnreadableBodyMessage(name, body) ==
  "Cannot read properties of " \o body \o " (reading '" \o BodyProperty(name) \o "')"

IsErrorResponse(response) == "isError" \in DOMAIN response /\ response.isError

OneTextBlock(response) ==
  Len(response.content) = 1 /\ response.content[1].type = "text"

TextOf(response) == response.content[1].text

\* no client method ran for the call: no attempt was ever sent
NoClientOperation(call) ==
  call.attempts = 0 /\ call.first = <<>> /\ call.sent = <<>> /\ call.delays = <<>>

\* C11: a call received while Running whose tool name is none of the 14
\* registered names returns one error-flagged response whose text lists the
\* 14 valid names, and no client operation or remote request is performed
C11_UnknownToolReported ==
  \A c \in RequestIds :
    LET call == calls[c]
    IN  (call.pc # "idle" /\ ~call.afterShutdown
           /\ call.tool \notin Elems(ValidToolNames)) =>
          /\ call.pc = "done"
          /\ call.replies = 1
          /\ IsErrorResponse(call.response)
          /\ OneTextBlock(call.response)
          /\ TextOf(call.response) =
               "Unknown tool: " \o call.tool \o ". Available tools: "
                 \o Join(ValidToolNames, ", ")
                 \o ". DO NOT RETRY with the same tool name."
          /\ NoClientOperation(call)

C11_Witness ==
  \E c \in RequestIds :
    /\ calls[c].tool = "bogus_tool"
    /\ calls[c].pc = "done"
    /\ ~calls[c].afterShutdown
    /\ ~isShuttingDown

\* C12: a call received while ShuttingDown, whatever its tool name and
\* arguments, returns an error-flagged response and never starts an HTTP
\* attempt
C12_RefusedWhileShuttingDown ==
  \A c \in RequestIds :
    calls[c].afterShutdown =>
      /\ calls[c].pc = "done"
      /\ IsErrorResponse(calls[c].response)
      /\ NoClientOperation(calls[c])

C12_Witness ==
  \E c \in RequestIds :
    /\ calls[c].afterShutdown
    /\ calls[c].tool \in Elems(ValidToolNames)
    /\ calls[c].pc = "done"

\* C13: a list-tools request received while ShuttingDown throws and returns
\* no catalogue, whereas a call received in that state returns a structured
\* error-flagged response
C13_ListFailsWhileShuttingDown ==
  /\ (out.kind = "list" /\ out.shutting) =>
       out.threw /\ out.tools = <<>> /\ out.message = ListShuttingDownMessage
  /\ \A c \in RequestIds :
       calls[c].afterShutdown =>
         /\ calls[c].replies = 1
         /\ OneTextBlock(calls[c].response)
         /\ calls[c].response = ShuttingDownResponse

C13_Witness ==
  /\ out.kind = "list"
  /\ out.shutting
  /\ out.threw
  /\ \E c \in RequestIds : calls[c].afterShutdown /\ calls[c].replies = 1

\* C14: a list-tools request received while Running returns the static
\* catalogue: exactly 14 descriptors with pairwise distinct names, the same
\* whatever calls, failures and retries came before
C14_StaticCatalogue ==
  (out.kind = "list" /\ ~out.shutting) =>
    /\ ~out.threw
    /\ out.tools = tools
    /\ Len(out.tools) = 14
    /\ \A i, j \in DOMAIN out.tools :
         out.tools[i].name = out.tools[j].name => i = j
    /\ [i \in DOMAIN out.tools |-> out.tools[i].name] = ValidToolNames

C14_Witness ==
  /\ out.kind = "list"
  /\ ~out.shutting
  /\ ~out.threw
  /\ ~isShuttingDown
  /\ \E c \in RequestIds :
       calls[c].pc = "done" /\ calls[c].outcome = "error" /\ calls[c].attempts > 1

\* the client operation of the call failed: the interceptor threw, or the
\* method threw on the body of the response
ClientFailed(call) == call.pc = "done" /\ call.outcome = "error"

\* the last request of the call was answered (no attempt failure is pending)
\* and yet the operation failed: the body could not be read
BodyUnreadable(call) == ClientFailed(call) /\ call.lastErr = NoErr

\* the message of the error the client operation threw
ThrownMessage(call) ==
  IF call.lastErr = NoErr
    THEN IF call.message = UnreadableBodyMessage(call.tool, "undefined")
           THEN UnreadableBodyMessage(call.tool, "undefined")
           ELSE UnreadableBodyMessage(call.tool, "null")
    ELSE formatError(call.lastErr)

\* C15 as stated: when the client operation of a call fails, the text of the
\* error-flagged response is exactly the message formatError produced
C15_Original ==
  \A c \in RequestIds :
    ClientFailed(calls[c]) =>
      /\ IsErrorResponse(calls[c].response)
      /\ TextOf(calls[c].response) = formatError(calls[c].lastErr)

\* C15, amended: when the client operation of a call fails, the handler
\* catches the error and returns one error-flagged response whose text is
\* "Error: " followed by the message of the error thrown: the message
\* formatError produced when a request failed, the TypeError's when the
\* response came without a body to read
C15_CaughtErrorReported ==
  \A c \in RequestIds :
    ClientFailed(calls[c]) =>
      /\ calls[c].replies = 1
      /\ IsErrorResponse(calls[c].response)
      /\ OneTextBlock(calls[c].response)
      /\ calls[c].lastErr # NoErr => calls[c].message = formatError(calls[c].lastErr)
      /\ BodyUnreadable(calls[c]) =>
           /\ calls[c].tool \in ValueTools
           /\ calls[c].message \in {UnreadableBodyMessage(calls[c].tool, "null"),
                                    UnreadableBodyMessage(calls[c].tool, "undefined")}
      /\ TextOf(calls[c].response) = "Error: " \o ThrownMessage(calls[c])

C15_Witness ==
  \E c \in RequestIds :
    /\ ClientFailed(calls[c])
    /\ calls[c].lastErr.status = 404
    /\ calls[c].replies = 1
    /\ TextOf(calls[c].response) # calls[c].message

\* the call ended on one of the failure paths
Failed(call) ==
  \/ call.pc # "idle" /\ call.tool \notin Elems(ValidToolNames)
  \/ call.afterShutdown
  \/ call.outcome = "error"

\* C16: a call that fails (unknown tool, shutting down, terminal remote
\* error, exhausted retries, connectivity failure) gets exactly one
\* response, which is error-flagged and has a non-empty text; only a call
\* that succeeded gets a response without the flag
C16_EveryFailureFlagged ==
  \A c \in RequestIds :
    LET call == calls[c]
    IN  /\ call.replies <= 1
        /\ call.replies = 1 <=> call.pc = "done"
        /\ Failed(call) =>
             /\ call.pc = "done"
             /\ call.replies = 1
             /\ IsErrorResponse(call.response)
             /\ OneTextBlock(call.response)
             /\ TextOf(call.response) # ""
        /\ (call.pc = "done" /\ ~IsErrorResponse(call.response)) =>
             call.outcome = "ok"

C16_Witness ==
  \E c \in RequestIds :
    /\ calls[c].outcome = "error"
    /\ calls[c].attempts = MAX_RETRIES + 1
    /\ calls[c].lastErr # NoErr
    /\ ~calls[c].lastErr.response
    /\ calls[c].replies = 1
    /\ IsErrorResponse(calls[c].response)

ExpectedBookmark ==
  "{\n  \"_id\": 42,\n  \"title\": \"TLA\",\n  \"link\": \"https://a.example\",\n  \"tags\": [\n    \"t\"\n  ],\n  \"collection\": {\n    \"$id\": 5\n  },\n  \"important\": false\n}"

ExpectedCollection ==
  "{\n  \"_id\": 5,\n  \"title\": \"Papers\",\n  \"public\": false,\n  \"count\": 0\n}"

ExpectedUser ==
  "{\n  \"_id\": 1,\n  \"fullName\": \"A\"\n}"

ExpectedSearch ==
  "{\n  \"items\": [\n    {\n      \"_id\": 42,\n      \"title\": \"TLA\",\n      \"link\": \"https://a.example\",\n      \"tags\": [\n        \"t\"\n      ],\n      \"collection\": {\n        \"$id\": 5\n      },\n      \"important\": false\n    }\n  ],\n  \"count\": 1\n}"

ExpectedSearchEmpty ==
  "{\n  \"items\": [],\n  \"count\": 0\n}"

ExpectedCollections ==
  "[\n  {\n    \"_id\": 5,\n    \"title\": \"Papers\",\n    \"public\": false,\n    \"count\": 0\n  }\n]"

ExpectedTags ==
  "[\n  {\n    \"_id\": \"t\",\n    \"count\": 1\n  }\n]"

ExpectedBookmarkBare ==
  "{\n  \"_id\": 7,\n  \"title\": \"\",\n  \"link\": \"https://b.example\",\n  \"note\": null,\n  \"tags\": [],\n  \"collection\": {\n    \"$id\": -1\n  },\n  \"highlights\": {},\n  \"important\": true\n}"

\* the text the tool's contract promises for the call
ExpectedText(call) ==
  CASE call.name = "delete_bookmark"   -> "Bookmark 42 deleted successfully"
    [] call.name = "delete_collection" -> "Collection 5 deleted successfully"
    [] call.name = "rename_tag" -> "Tag renamed from \"old\" to \"new\" successfully"
    [] call.name = "delete_tag" -> "Tag \"old\" deleted successfully"
    [] call.name \in {"get_bookmark", "create_bookmark", "update_bookmark"} ->
         IF call.body = "bare" THEN ExpectedBookmarkBare ELSE ExpectedBookmark
    [] call.name \in {"get_collection", "create_collection", "update_collection"} ->
         ExpectedCollection
    [] call.name = "search_bookmarks" ->
         IF call.body = "empty" THEN ExpectedSearchEmpty ELSE ExpectedSearch
    [] call.name = "list_collections" ->
         IF call.body = "empty" THEN "[]" ELSE ExpectedCollections
    [] call.name = "list_tags" ->
         IF call.body = "empty" THEN "[]" ELSE ExpectedTags
    [] call.name = "get_user_info" -> ExpectedUser

\* C17: a successful call returns exactly one text block without the error
\* flag; for the ten value-returning tools its text is the JSON of the
\* operation's result indented by two spaces, for the four void tools a
\* confirmation naming the entity and the action.  A call whose operation
\* throws on a response without a body is no success: it gets the error
\* response of the catch block
C17_SuccessText ==
  Ran("callTool") =>
    /\ opArgs.name \in Elems(ValidToolNames)
    /\ OneTextBlock(opResult)
    /\ IF opArgs.name \in ValueTools /\ opArgs.body \in {"null", "undefined"}
         THEN /\ IsErrorResponse(opResult)
              /\ TextOf(opResult) =
                   "Error: " \o UnreadableBodyMessage(opArgs.name, opArgs.body)
         ELSE /\ DOMAIN opResult = {"content"}
              /\ TextOf(opResult) = ExpectedText(opArgs)

C17_Witness ==
  /\ Ran("callTool")
  /\ opArgs.name = "search_bookmarks"
  /\ opArgs.body = "sample"
  /\ TextOf(opResult) = ExpectedSearch

(***************************************************************************)
(* Properties of the shutdown sequence and the process-level handlers      *)
(***************************************************************************)
InFlight(call) == call.pc \in {"inflight", "backoff"}

\* C18: once a termination signal has been received the dispatcher starts no
\* client operation for any later call, and the process eventually exits; the
\* shutdown timer ends it exactly 5000 ms after the first signal, never
\* later, whatever calls are still awaiting a response or a retry backoff
C18_ShutdownExits ==
  /\ isShuttingDown ~> ~proc.alive
  /\ [](proc.cause = "shutdown" =>
          /\ isShuttingDown
          /\ proc.exitCode = 0
          /\ sinceSignal = SHUTDOWN_GRACE_MS)
  /\ [](isShuttingDown => sinceSignal <= SHUTDOWN_GRACE_MS)
  /\ [](\A c \in RequestIds :
          calls[c].afterShutdown => calls[c].attempts = 0 /\ ~InFlight(calls[c]))

C18_Witness ==
  /\ ~proc.alive
  /\ proc.cause = "shutdown"
  /\ sinceSignal = SHUTDOWN_GRACE_MS
  /\ \E c \in RequestIds : InFlight(calls[c])

\* the text of the call's normal result: what its tool answers on success,
\* the classified error when its operation failed
NormalText(call) ==
  IF call.outcome = "ok"
    THEN ExpectedText([name |-> call.tool, body |-> "sample"])
    ELSE "Error: " \o ThrownMessage(call)

\* C19: a call accepted while Running is honoured after the signal for as
\* long as the process lives: its retry is sent when its backoff is over,
\* and when it finishes it returns its normal result (the success or the
\* classified error), never the shutting-down error
C19_InFlightHonoured ==
  \A c \in RequestIds :
    LET call == calls[c]
    IN  (~call.afterShutdown /\ call.tool \in Elems(ValidToolNames)) =>
          /\ (proc.alive /\ TimerDue(call)) => ENABLED ToolRetry(c)
          /\ call.pc = "done" =>
               /\ call.response # ShuttingDownResponse
               /\ call.outcome \in {"ok", "error"}
               /\ IsErrorResponse(call.response) <=> call.outcome = "error"
               /\ TextOf(call.response) = NormalText(call)

C19_Witness ==
  \E c \in RequestIds :
    /\ ~calls[c].afterShutdown
    /\ calls[c].pc = "done"
    /\ calls[c].repliedInGrace
    /\ calls[c].attempts > 1
    /\ calls[c].outcome = "ok"
    /\ proc.alive

BrokenPipeSources == {"stdout", "stderr", "uncaughtException"}

\* C20: EPIPE reported as a stdout error, a stderr error or an uncaught
\* exception is handled in every state of the running process, and ends the
\* process with exit code 0
C20_BrokenPipeExitsZero ==
  /\ (out.kind = "event" /\ out.code = "EPIPE" /\ out.source \in BrokenPipeSources) =>
       ~proc.alive /\ proc.exitCode = 0
  /\ proc.alive =>
       /\ ENABLED StdoutError("EPIPE")
       /\ ENABLED StderrError("EPIPE")
       /\ ENABLED UncaughtException("EPIPE")

C20_Witness ==
  /\ ~proc.alive
  /\ proc.exitCode = 0
  /\ out = Event("stdout", "EPIPE")
  /\ isShuttingDown
  /\ \E c \in RequestIds : InFlight(calls[c])

AsyncFailureSources ==
  {"stdout", "stderr", "uncaughtException", "unhandledRejection"}

\* C21 as stated: no asynchronous failure other than a broken pipe, a
\* non-EPIPE output-stream error included, terminates the process
C21_Original ==
  (out.kind = "event" /\ out.source \in AsyncFailureSources /\ out.code # "EPIPE") =>
    proc.alive

\* the step of a process-level handler that logs and returns
LogStep == proc.alive /\ out # Logged /\ out' = Logged

\* C21, amended: a non-EPIPE uncaught exception, an unhandled rejection and
\* a non-EPIPE stdout error are logged and leave the process alive, the
\* dispatcher state untouched and list and call requests served; a non-EPIPE
\* stderr error ends the process with exit code 1
C21_LoggedKeepsRunning ==
  /\ [](~proc.alive =>
          /\ out.kind = "event"
          /\ \/ out.source = "shutdown"
             \/ out.source \in {"stdout", "stderr", "uncaughtException"}
                  /\ out.code = "EPIPE"
             \/ out.source = "stderr" /\ proc.exitCode = 1)
  /\ []((out = Logged) =>
          /\ proc.alive
          /\ ENABLED ListTools
          /\ \A c \in RequestIds :
               calls[c].pc = "idle" => ENABLED CallTool(c, CallOf(c).name))
  /\ [][LogStep =>
          /\ proc' = proc
          /\ UNCHANGED <<calls, isShuttingDown, exitTimers, sinceSignal>>]_vars

C21_Witness ==
  /\ out = Logged
  /\ proc.alive
  /\ ~isShuttingDown
  /\ \E c \in RequestIds : calls[c].pc = "done" /\ calls[c].outcome = "ok"

(***************************************************************************)
(* Properties of the error classification (checked under Spec)             *)
(***************************************************************************)
RateLimitedMessage ==
  "Rate limited: Too many requests. The server has already retried. Please inform the user to wait before trying again."

ServerErrorMessage(status) ==
  "Raindrop.io server error (" \o ToString(status)
    \o "): The service is temporarily unavailable. Already retried 3 times."

\* the call failed with a message saying that retries were already made
SaysAlreadyRetried(call) ==
  /\ call.pc = "done"
  /\ call.outcome = "error"
  /\ \/ call.message = RateLimitedMessage
     \/ call.message = ServerErrorMessage(call.lastErr.status)

\* C22: a call that fails with the rate-limited message or the server-error
\* message has made exactly 3 retries (4 attempts), whatever the outcomes of
\* its attempts were
C22_AlreadyRetriedIsTrue ==
  \A c \in CallIds :
    SaysAlreadyRetried(calls[c]) =>
      /\ calls[c].attempts = MAX_RETRIES + 1
      /\ retryCountOf(calls[c].config) = MAX_RETRIES
      /\ Len(calls[c].waits) = MAX_RETRIES

\* the kind the taxonomy assigns to a failure: a function of whether a
\* response is present and of its status
KindOf(error) ==
  IF ~error.response THEN "Connectivity"
  ELSE CASE error.status = 400 -> "BadRequest"
         [] error.status = 401 -> "Unauthorized"
         [] error.status = 403 -> "Forbidden"
         [] error.status = 404 -> "NotFound"
         [] error.status = 429 -> "RateLimited"
         [] error.status \in 500..599 -> "ServerError"
         [] OTHER -> "Generic"

\* the message of each kind
MessageOfKind(kind, error) ==
  CASE kind = "Connectivity" ->
         "Network error: " \o error.message \o ". The Raindrop.io API may be temporarily unavailable. DO NOT RETRY - this is a connectivity issue."
    [] kind = "BadRequest" ->
         "Bad request: " \o OrStr(error.errorMessage, error.error, "Invalid parameters provided") \o ". Please check the input values and DO NOT RETRY with the same parameters."
    [] kind = "Unauthorized" ->
         "Authentication failed: Invalid or expired API token. Please check your RAINDROP_API_TOKEN. DO NOT RETRY - user must fix the token."
    [] kind = "Forbidden" ->
         "Access denied: You do not have permission for this operation. DO NOT RETRY."
    [] kind = "NotFound" ->
         "Not found: The requested resource does not exist. It may have been deleted. DO NOT RETRY."
    [] kind = "RateLimited" -> RateLimitedMessage
    [] kind = "ServerError" -> ServerErrorMessage(error.status)
    [] kind = "Generic" ->
         "API error (" \o ToString(error.status) \o "): " \o OrStr(error.errorMessage, error.error, error.message) \o ". DO NOT RETRY."

\* C23: every failure is rendered as the message of the one kind the
\* taxonomy assigns to it: no response -> Connectivity, 400 -> BadRequest,
\* 401 -> Unauthorized, 403 -> Forbidden, 404 -> NotFound, 429 -> RateLimited,
\* 500..599 -> ServerError, any other status -> the generic API error
C23_ClassifiedByTaxonomy ==
  Ran("formatError") =>
    opResult = MessageOfKind(KindOf(opArgs.error), opArgs.error)

(***************************************************************************)
(* Properties of the attempts of a call (checked under Spec)               *)
(***************************************************************************)
\* C24: the attempts of one call are strictly sequential: at most one of
\* them is awaiting its outcome at any time, none while the call backs off,
\* and attempt k+1 was started only after attempt k had failed and its
\* backoff of 1000 * 2^(k-1) ms had fully elapsed
C24_AttemptsSequential ==
  \A c \in CallIds :
    LET call == calls[c]
    IN  /\ call.open \in {0, 1}
        /\ call.open = 1 <=> call.pc = "inflight"
        /\ call.attempts > 0 => Len(call.waits) = call.attempts - 1
        /\ Len(call.delays) =
             IF call.pc = "backoff" THEN call.attempts ELSE Len(call.waits)
        /\ \A k \in 1..Len(call.waits) :
             /\ call.delays[k] = ExpectedDelays[k]
             /\ call.waits[k] >= call.delays[k]

C24_Witness ==
  \E c \in CallIds :
    /\ calls[c].pc = "inflight"
    /\ calls[c].open = 1
    /\ calls[c].attempts = 3
    /\ calls[c].waits = <<1000, 2000>>

\* the step of one call, or of the clock they share
OneCallStep ==
  \/ \E c \in CallIds : \A d \in CallIds \ {c} : calls'[d] = calls[d]
  \/ calls' = [c \in CallIds |-> Elapse(calls[c])]

\* C25: calls interleaved on the one client do not affect each other: each
\* keeps its own request and its own retry counter, follows the backoff
\* schedule from its start, and ends as its own attempts decide (a success,
\* a terminal failure at once, a retryable failure only on its fourth
\* attempt); a step of one call changes no other call
C25_CallsIndependent ==
  /\ [](\A c \in CallIds :
          LET call == calls[c]
          IN  call.pc # "idle" =>
                /\ Wire(call.config) = Wire(RequestOf(c))
                /\ OrZero(call.config, "__retryCount") = Len(call.delays)
                /\ Len(call.delays) <= MAX_RETRIES
                /\ \A k \in 1..Len(call.delays) :
                     call.delays[k] = ExpectedDelays[k]
                /\ call.pc = "backoff" => RetryableKind(call.lastErr)
                /\ Answered(call) =>
                     /\ call.attempts = Len(call.delays) + 1
                     /\ call.outcome = "error" =>
                          call.message \in TypeErrorTexts(MethodProperty(OperationOf(c)))
                /\ (call.outcome = "error" /\ ~Answered(call)) =>
                     /\ call.message = formatError(call.lastErr)
                     /\ RetryableKind(call.lastErr) =>
                          call.attempts = MAX_RETRIES + 1
                     /\ ~RetryableKind(call.lastErr) =>
                          call.attempts = Len(call.delays) + 1)
  /\ [][OneCallStep]_vars

C25_Witness ==
  \E c, d \in CallIds :
    /\ c # d
    /\ calls[c].pc = "backoff"
    /\ calls[c].attempts = 3
    /\ calls[d].pc = "inflight"
    /\ calls[d].attempts = 1

RECURSIVE SumTo(_, _)
SumTo(seq, n) == IF n = 0 THEN 0 ELSE SumTo(seq, n - 1) + seq[n]

\* the scripted call has settled
ScriptEnded == opName = "request" /\ calls[1].pc = "done"

\* how the scripted call went, read off its record: the attempts made, the
\* retries counted in the config, the backoff waited, and the time from the
\* first request to the end (the attempts' durations and the backoff)
ScriptResult ==
  LET call == calls[1]
      ms   == [i \in 1..call.attempts |-> opArgs.outcomes[i].ms]
  IN  [outcome  |-> call.outcome,
       attempts |-> call.attempts,
       retries  |-> retryCountOf(call.config),
       backoff  |-> SumTo(call.waits, Len(call.waits)),
       elapsed  |-> SumTo(ms, call.attempts) + SumTo(call.waits, Len(call.waits)),
       message  |-> call.message]

\* C26: with attempts lasting at most the request timeout of 30000 ms, one
\* call makes at most 4 attempts, waits at most 1000 + 2000 + 4000 = 7000 ms
\* in backoff, and ends within 4 * 30000 + 7000 = 127000 ms, whatever the
\* outcomes of its attempts
C26_LatencyBound ==
  ScriptEnded =>
    /\ ScriptResult.outcome \in {"ok", "error"}
    /\ ScriptResult.attempts <= 4
    /\ ScriptResult.backoff <= 7000
    /\ ScriptResult.elapsed <= ScriptResult.attempts * 30000 + ScriptResult.backoff
    /\ ScriptResult.elapsed <= 127000

C26_Witness ==
  /\ ScriptEnded
  /\ ScriptResult.outcome = "error"
  /\ ScriptResult.attempts = 4
  /\ ScriptResult.elapsed = 127000

(***************************************************************************)
(* Reading the rendered text back: JSON.parse                              *)
(***************************************************************************)
Ch(s, i) == IF i >= 1 /\ i <= Len(s) THEN SubSeq(s, i, i) ELSE ""

Digits == <<"0", "1", "2", "3", "4", "5", "6", "7", "8", "9">>

IsDigit(ch) == \E d \in DOMAIN Digits : Digits[d] = ch

DigitValue(ch) == (CHOOSE d \in DOMAIN Digits : Digits[d] = ch) - 1

RECURSIVE SkipSpace(_, _)
SkipSpace(s, i) ==
  IF Ch(s, i) = " " \/ Ch(s, i) = "\n" THEN SkipSpace(s, i + 1) ELSE i

\* the index of the quote that closes the string whose content starts at i
RECURSIVE ClosingQuote(_, _)
ClosingQuote(s, i) ==
  IF i > Len(s) \/ Ch(s, i) = "\"" THEN i ELSE ClosingQuote(s, i + 1)

RECURSIVE ParseDigits(_, _, _)
ParseDigits(s, i, n) ==
  IF IsDigit(Ch(s, i)) THEN ParseDigits(s, i + 1, 10 * n + DigitValue(Ch(s, i)))
  ELSE [v |-> n, next |-> i]

\* the value that starts at index i, and the index after it
RECURSIVE ParseValue(_, _), ParseItems(_, _, _), ParseProps(_, _, _)
ParseValue(s, i0) ==
  LET i  == SkipSpace(s, i0)
      ch == Ch(s, i)
  IN  CASE ch = "{" ->
             IF Ch(s, SkipSpace(s, i + 1)) = "}"
               THEN [v |-> JObj(<<>>), next |-> SkipSpace(s, i + 1) + 1]
               ELSE ParseProps(s, i + 1, <<>>)
        [] ch = "[" ->
             IF Ch(s, SkipSpace(s, i + 1)) = "]"
               THEN [v |-> JArr(<<>>), next |-> SkipSpace(s, i + 1) + 1]
               ELSE ParseItems(s, i + 1, <<>>)
        [] ch = "\"" ->
             LET j == ClosingQuote(s, i + 1)
             IN  [v |-> JStr(SubSeq(s, i + 1, j - 1)), next |-> j + 1]
        [] ch = "t" -> [v |-> JBool(TRUE), next |-> i + 4]
        [] ch = "f" -> [v |-> JBool(FALSE), next |-> i + 5]
        [] ch = "n" -> [v |-> JNull, next |-> i + 4]
        [] ch = "-" ->
             LET d == ParseDigits(s, i + 1, 0)
             IN  [v |-> JNum(0 - d.v), next |-> d.next]
        [] IsDigit(ch) ->
             LET d == ParseDigits(s, i, 0)
             IN  [v |-> JNum(d.v), next |-> d.next]
        [] OTHER -> [v |-> JUndef, next |-> Len(s) + 1]

ParseItems(s, i, items) ==
  LET item == ParseValue(s, i)
      j    == SkipSpace(s, item.next)
  IN  IF Ch(s, j) = ","
        THEN ParseItems(s, j + 1, Append(items, item.v))
        ELSE [v |-> JArr(Append(items, item.v)), next |-> j + 1]

ParseProps(s, i, props) ==
  LET k     == SkipSpace(s, i)
      q     == ClosingQuote(s, k + 1)
      key   == SubSeq(s, k + 1, q - 1)
      colon == SkipSpace(s, q + 1)
      val   == ParseValue(s, colon + 1)
      j     == SkipSpace(s, val.next)
  IN  IF Ch(s, j) = ","
        THEN ParseProps(s, j + 1, Append(props, <<key, val.v>>))
        ELSE [v |-> JObj(Append(props, <<key, val.v>>)), next |-> j + 1]

\* JSON.parse(text)
Parse(text) == ParseValue(text, 1).v

\* the two values have the same fields with the same values
RECURSIVE SameJson(_, _)
SameJson(a, b) ==
  /\ a.t = b.t
  /\ CASE a.t \in {"num", "str", "bool"} -> a.v = b.v
       [] a.t = "arr" ->
            /\ Len(a.v) = Len(b.v)
            /\ \A i \in DOMAIN a.v : SameJson(a.v[i], b.v[i])
       [] a.t = "obj" ->
            /\ Len(a.v) = Len(b.v)
            /\ \A i \in DOMAIN a.v :
                 a.v[i][1] = b.v[i][1] /\ SameJson(a.v[i][2], b.v[i][2])
       [] OTHER -> TRUE

\* C27: parsing the JSON text of the content block gives back the entity the
\* client operation returned: the same fields, in the same order, with equal
\* values
C27_RenderRoundTrip ==
  (Ran("callTool") /\ opArgs.name \in ValueTools
     /\ opArgs.body \notin {"null", "undefined"}) =>
    LET returned ==
          ResultOf(ClientCall(opArgs.name, opArgs.args).op, opArgs.data)
    IN  /\ returned.t \in {"obj", "arr"}
        /\ SameJson(Parse(TextOf(opResult)), returned)

C27_Witness ==
  /\ Ran("callTool")
  /\ opArgs.name = "get_bookmark"
  /\ opArgs.body = "bare"
  /\ SameJson(Parse(TextOf(opResult)), BareBookmark)
  /\ Prop(Parse(TextOf(opResult)), "collection") = JObj(<< <<"$id", JNum(-1)>> >>)

\* the client operation each tool stands for, called with the sample
\* arguments of the tool
MatchingOperation(name) ==
  CASE name = "search_bookmarks" ->
         [op |-> "searchRaindrops",
          request |-> searchRaindrops([search |-> "tla", page |-> 2])]
    [] name = "get_bookmark" ->
         [op |-> "getRaindrop", request |-> getRaindrop(42)]
    [] name = "create_bookmark" ->
         [op |-> "createRaindrop",
          request |-> createRaindrop([link |-> "https://a.example", collectionId |-> 5])]
    [] name = "update_bookmark" ->
         [op |-> "updateRaindrop", request |-> updateRaindrop(42, [title |-> "TLA"])]
    [] name = "delete_bookmark" ->
         [op |-> "deleteRaindrop", request |-> deleteRaindrop(42)]
    [] name = "list_collections" ->
         [op |-> "getCollections", request |-> getCollections]
    [] name = "get_collection" ->
         [op |-> "getCollection", request |-> getCollection(5)]
    [] name = "create_collection" ->
         [op |-> "createCollection", request |-> createCollection([title |-> "Papers"])]
    [] name = "update_collection" ->
         [op |-> "updateCollection", request |-> updateCollection(5, [title |-> "Papers"])]
    [] name = "delete_collection" ->
         [op |-> "deleteCollection", request |-> deleteCollection(5)]
    [] name = "list_tags" ->
         [op |-> "getTags", request |-> getTags]
    [] name = "rename_tag" ->
         [op |-> "renameTag", request |-> renameTag("old", "new")]
    [] name = "delete_tag" ->
         [op |-> "deleteTag", request |-> deleteTag("old")]
    [] name = "get_user_info" ->
         [op |-> "getUser", request |-> getUser]

\* C28: a call of a registered tool invokes the client operation that matches
\* the tool's name, with the tool's arguments (an update's id apart from the
\* fields to change), and no other operation
C28_MatchingOperation ==
  (Ran("dispatch") /\ opArgs.name \in Elems(ValidToolNames)) =>
    /\ opResult = MatchingOperation(opArgs.name)
    /\ \A other \in Elems(ValidToolNames) \ {opArgs.name} :
         opResult.op # MatchingOperation(other).op

C28_Witness ==
  /\ Ran("dispatch")
  /\ opArgs.name = "update_collection"
  /\ opArgs.args = [id |-> 5, title |-> "Papers"]
  /\ opResult.op = "updateCollection"
  /\ opResult.request.method = "put"
  /\ opResult.request.url = "/collection/5"
  /\ opResult.request.data = [title |-> "Papers"]

\* C29 as stated: createCollection sends parent = { $id: p } for every
\* supplied integer p, and no parent field when none is supplied
C29_Original ==
  Ran("createCollection") =>
    LET p == opArgs.params
        d == opResult.data
    IN  IF "parent" \in DOMAIN p
          THEN IsRef(d, "parent", p["parent"])
          ELSE "parent" \notin DOMAIN d

\* C29 (amended): createCollection sends parent = { $id: p } for every
\* supplied parent id p other than 0, and no parent field when the parent
\* is 0 or not supplied
C29_ParentNested ==
  Ran("createCollection") =>
    LET p == opArgs.params
        d == opResult.data
    IN  IF "parent" \in DOMAIN p /\ p["parent"] # 0
          THEN IsRef(d, "parent", p["parent"])
          ELSE "parent" \notin DOMAIN d

\* createCollection with parent 5 posts parent = { $id: 5 } to /collection
C29_Witness ==
  /\ Ran("createCollection")
  /\ "parent" \in DOMAIN opArgs.params
  /\ opArgs.params["parent"] = 5
  /\ opResult.method = "post"
  /\ opResult.url = "/collection"
  /\ IsRef(opResult.data, "parent", 5)

\* what the handler does with a request that arrives while Running
Handled(name, args) == HandleCall(IdleCall, name, args, FALSE)

\* C30: the catalogue advertises exactly the names the switch handles: a
\* call of an advertised name reaches a client operation and never the
\* unknown-tool response, and every label of the switch is advertised
C30_CatalogueMatchesSwitch ==
  /\ Elems(ToolNames) = CaseLabels
  /\ Ran("dispatch") =>
       LET name == opArgs.name
           handled == Handled(name, opArgs.args)
       IN  /\ name \in Elems(ToolNames) <=> opResult.op # "none"
           /\ name \in CaseLabels <=> opResult.op # "none"
           /\ name \in Elems(ToolNames) =>
                /\ handled.pc = "inflight"
                /\ handled.response # UnknownToolResponse(name)
           /\ name \notin Elems(ToolNames) =>
                /\ handled.pc = "done"
                /\ handled.response = UnknownToolResponse(name)

\* the last advertised tool is dispatched to its client operation
C30_Witness ==
  /\ Ran("dispatch")
  /\ opArgs.name = "get_user_info"
  /\ opArgs.name \in Elems(ToolNames)
  /\ opResult = [op |-> "getUser", request |-> getUser]
  /\ Handled(opArgs.name, opArgs.args).pc = "inflight"

\* a step in which shutdown(signal) ran: it scheduled one more exit timer
SignalStep == Len(exitTimers') = Len(exitTimers) + 1

\* C31: the dispatcher starts Running, the shutdown flag is set by a
\* termination signal only, and no step of a request, a failure, a retry, a
\* timer or a process-level handler ever clears it
C31_ShutdownMonotonic ==
  /\ ~isShuttingDown
  /\ [][/\ isShuttingDown => isShuttingDown'
        /\ (~isShuttingDown /\ isShuttingDown') => SignalStep
        /\ SignalStep => isShuttingDown']_vars

\* still ShuttingDown after a call failed on its retries and a process-level
\* failure was logged within the grace window
C31_Witness ==
  /\ isShuttingDown
  /\ proc.alive
  /\ sinceSignal > 0
  /\ out = Logged
  /\ \E c \in RequestIds :
       /\ calls[c].pc = "done"
       /\ calls[c].attempts > 1
       /\ calls[c].repliedInGrace

\* the text of the response to a call refused during shutdown
ShuttingDownText ==
  "Error: Server is shutting down. Please wait and try again. DO NOT RETRY immediately."

\* the response's text is the unknown-tool message
SaysUnknownTool(response) ==
  /\ Len(TextOf(response)) >= Len("Unknown tool: ")
  /\ SubSeq(TextOf(response), 1, Len("Unknown tool: ")) = "Unknown tool: "

\* C32: the shutdown check comes before the lookup of the tool name: a call
\* with an unregistered name received while ShuttingDown gets the
\* shutting-down error, not the unknown-tool response listing the valid
\* names, whereas the same name received while Running gets the latter
C32_ShutdownBeforeLookup ==
  \A c \in RequestIds :
    LET call == calls[c]
    IN  (call.pc # "idle" /\ call.tool \notin Elems(ValidToolNames)) =>
          /\ call.pc = "done"
          /\ call.replies = 1
          /\ IsErrorResponse(call.response)
          /\ OneTextBlock(call.response)
          /\ IF call.afterShutdown
               THEN /\ TextOf(call.response) = ShuttingDownText
                    /\ ~SaysUnknownTool(call.response)
               ELSE SaysUnknownTool(call.response)

\* an unregistered name called during shutdown was refused as any other call
C32_Witness ==
  \E c \in RequestIds :
    /\ isShuttingDown
    /\ calls[c].afterShutdown
    /\ calls[c].tool = "bogus_tool"
    /\ calls[c].pc = "done"
    /\ TextOf(calls[c].response) = ShuttingDownText

\* C33: further termination signals do not extend the grace window: every
\* signal schedules its own 5000 ms timer and cancels none, so the first
\* timer runs down from the first signal untouched and the shutdown exit
\* comes exactly 5000 ms after the first signal, whatever timers of later
\* signals are still pending
C33_RepeatedSignalsKeepWindow ==
  /\ isShuttingDown <=> Len(exitTimers) > 0
  /\ isShuttingDown =>
       /\ exitTimers[1] = SHUTDOWN_GRACE_MS - sinceSignal
       /\ sinceSignal <= SHUTDOWN_GRACE_MS
       /\ \A i \in DOMAIN exitTimers :
            /\ exitTimers[i] >= exitTimers[1]
            /\ exitTimers[i] <= SHUTDOWN_GRACE_MS
  /\ ExitTimerDue => exitTimers[1] = 0
  /\ proc.cause = "shutdown" =>
       /\ proc.exitCode = 0
       /\ exitTimers[1] = 0
       /\ sinceSignal = SHUTDOWN_GRACE_MS

\* the process exited 5000 ms after the first signal while the timer of a
\* signal received later in the window was still pending
C33_Witness ==
  /\ ~proc.alive
  /\ proc.cause = "shutdown"
  /\ sinceSignal = SHUTDOWN_GRACE_MS
  /\ Len(exitTimers) = 2
  /\ exitTimers[1] = 0
  /\ exitTimers[2] > 0

\* a scripted attempt that fails retryably / with a terminal status
RetryableFailure(o) == ~o.ok /\ RetryableKind(o.error)
TerminalFailure(o) == ~o.ok /\ TerminalKind(o.error)

\* the message of the taxonomy for a terminal status without a body
TerminalMessage(status) ==
  CASE status = 401 ->
         "Authentication failed: Invalid or expired API token. Please check your RAINDROP_API_TOKEN. DO NOT RETRY - user must fix the token."
    [] status = 403 ->
         "Access denied: You do not have permission for this operation. DO NOT RETRY."
    [] status = 404 ->
         "Not found: The requested resource does not exist. It may have been deleted. DO NOT RETRY."
    [] OTHER -> ""

\* the backoff waited before retry k + 1: the first k delays
RECURSIVE WaitedFor(_)
WaitedFor(k) == IF k = 0 THEN 0 ELSE WaitedFor(k - 1) + ExpectedDelays[k]

\* C34: the error of a call whose last attempt failed is the classification
\* of that attempt (a call whose last attempt was answered fails only with
\* the TypeError of reading a body that is not there, which is no
\* classification), and a terminal failure ends the call wherever it occurs: when
\* attempts 1..k fail retryably (k <= 3) and attempt k+1 fails with a
\* terminal status, the call fails after exactly k retries and k+1 attempts
\* with the message of that status, the remaining budget unused
C34_TerminalEndsRetries ==
  ScriptEnded =>
    LET outcomes == opArgs.outcomes
        r == ScriptResult
    IN  /\ r.outcome = "error" =>
             /\ ~outcomes[r.attempts].ok =>
                  r.message = formatError(outcomes[r.attempts].error)
             /\ outcomes[r.attempts].ok =>
                  r.message \in TypeErrorTexts(MethodProperty(OperationOf(1)))
             /\ r.retries = r.attempts - 1
             /\ \A i \in 1..(r.attempts - 1) : RetryableFailure(outcomes[i])
        /\ \A k \in 0..MAX_RETRIES :
             (/\ k + 1 <= Len(outcomes)
              /\ \A i \in 1..k : RetryableFailure(outcomes[i])
              /\ TerminalFailure(outcomes[k + 1])) =>
               /\ r.outcome = "error"
               /\ r.attempts = k + 1
               /\ r.retries = k
               /\ r.backoff = WaitedFor(k)
               /\ r.message = TerminalMessage(outcomes[k + 1].error.status)
               /\ r.message # ""

\* 503, 429 and a timeout retried, then 401 on the fourth attempt: the call
\* fails with the authentication message
C34_Witness ==
  /\ ScriptEnded
  /\ opArgs.outcomes[1].error.status = 503
  /\ opArgs.outcomes[2].error.status = 429
  /\ RetryableFailure(opArgs.outcomes[3])
  /\ ~opArgs.outcomes[3].error.response
  /\ opArgs.outcomes[4].error.status = 401
  /\ ScriptResult.outcome = "error"
  /\ ScriptResult.attempts = 4
  /\ ScriptResult.retries = 3
  /\ ScriptResult.backoff = 7000
  /\ ScriptResult.message = TerminalMessage(401)

=============================================================================
